---------------------------- MODULE Spec2Model ----------------------------
(***************************************************************************)
(* Model of the response-parsing pipeline of the wrong-notebook AI         *)
(* providers (src/src/lib/ai/openai-provider.ts, the Gemini provider in    *)
(* src/unnamed/part_000) and of the prompt helpers in                      *)
(* src/src/lib/ai/prompts.ts.                                              *)
(*                                                                         *)
(* A JavaScript string is a TLA+ string, a sequence of characters: Len,    *)
(* SubSeq and \o are the operations on it.  Indices are 0-based as in      *)
(* JavaScript and -1 is "not found".  The module is written in ASCII, so   *)
(* the non-ASCII text of the source has stand-ins: each of the ten subject *)
(* names is written in pinyin ("shuxue" for the name spelled U+6570        *)
(* U+5B66) and the full-width comma U+FF0C is written "^".  In the prompt  *)
(* templates each run of Chinese prose is replaced by a short English      *)
(* gloss; their placeholders, tags, quotes, braces, backslashes and line   *)
(* structure are those of the source, except that a backquote is written   *)
(* as an apostrophe.                                                       *)
(***************************************************************************)
EXTENDS Integers, Sequences, FiniteSets, TLC

VARIABLES
    pc,        \* position of the invocation or of the function application
    provider,  \* "openai" | "gemini": which AIService implementation runs
    flow,      \* "analyze" | "similar" | "reanswer": which method was called
    requests,  \* number of requests issued to the LLM backend
    backend,   \* what the awaited backend call produced
    rawText,   \* the raw text handed to the extractor
    tag,       \* the tag name handed to extractTag (extractor runs only)
    extracted, \* what extractTag returned (extractor runs only)
    parsed,    \* what parseResponse / the reanswer parse produced
    outcome,   \* what reaches the caller of the provider method
    handled,   \* number of calls of handleError
    helperCall,   \* the prompt helper called and its arguments
    helperResult  \* what the prompt helper returned

vars == <<pc, provider, flow, requests, backend, rawText, tag, extracted,
          parsed, outcome, handled, helperCall, helperResult>>

-----------------------------------------------------------------------------
(* Bounds of the model *)

\* Largest number of pieces an extractor input is assembled from.
MaxPieces == 5

\* Largest number of tokens a template handed to replaceVariables is
\* assembled from.
MaxTemplateTokens == 3

-----------------------------------------------------------------------------
(* JavaScript string primitives used by the providers *)

UpperChars ==
    <<"A", "B", "C", "D", "E", "F", "G", "H", "I", "J", "K", "L", "M",
      "N", "O", "P", "Q", "R", "S", "T", "U", "V", "W", "X", "Y", "Z">>

LowerChars ==
    <<"a", "b", "c", "d", "e", "f", "g", "h", "i", "j", "k", "l", "m",
      "n", "o", "p", "q", "r", "s", "t", "u", "v", "w", "x", "y", "z">>

\* The characters String.prototype.trim removes that occur in the model.
WhiteSpace == {" ", "\t", "\n", "\r"}

\* s[i], 0-based
CharAt(s, i) == SubSeq(s, i + 1, i + 1)

\* The lower-case image of each upper-case letter.
LowerOf ==
    [c \in {UpperChars[i] : i \in 1..Len(UpperChars)} |->
        LowerChars[CHOOSE i \in 1..Len(UpperChars) : UpperChars[i] = c]]

LowerChar(c) == IF c \in DOMAIN LowerOf THEN LowerOf[c] ELSE c

RECURSIVE toLowerCase(_)
\* String.prototype.toLowerCase, character by character (the string is
\* halved to keep the recursion shallow).
toLowerCase(s) ==
    IF Len(s) = 0 THEN ""
    ELSE IF Len(s) = 1 THEN LowerChar(s)
    ELSE LET half == Len(s) \div 2
         IN  toLowerCase(SubSeq(s, 1, half))
                \o toLowerCase(SubSeq(s, half + 1, Len(s)))

\* Whether pattern occurs in s at 0-based position i.
MatchesAt(s, pattern, i) ==
    /\ i >= 0
    /\ i + Len(pattern) <= Len(s)
    /\ SubSeq(s, i + 1, i + Len(pattern)) = pattern

\* The positions at which pattern occurs in s.
Matches(s, pattern) ==
    {i \in 0..(Len(s) - Len(pattern)) : MatchesAt(s, pattern, i)}

\* String.prototype.indexOf(pattern): the first occurrence, or -1
indexOf(s, pattern) ==
    LET hits == Matches(s, pattern)
    IN  IF hits = {} THEN -1
        ELSE CHOOSE i \in hits : \A j \in hits : i <= j

\* String.prototype.lastIndexOf(pattern): the last occurrence, or -1
lastIndexOf(s, pattern) ==
    LET hits == Matches(s, pattern)
    IN  IF hits = {} THEN -1
        ELSE CHOOSE i \in hits : \A j \in hits : i >= j

\* String.prototype.includes(pattern)
includes(s, pattern) == indexOf(s, pattern) # -1

Clamp(n, len) == IF n < 0 THEN 0 ELSE IF n > len THEN len ELSE n

\* String.prototype.substring(start, end): both clamped to the string, and
\* swapped when start > end.
substring(s, start, end) ==
    LET a == Clamp(start, Len(s))
        b == Clamp(end, Len(s))
        lo == IF a <= b THEN a ELSE b
        hi == IF a <= b THEN b ELSE a
    IN  SubSeq(s, lo + 1, hi)

\* String.prototype.trim: from the first to the last character that is not
\* whitespace.  The two ends are searched from the outside in.
trim(s) ==
    LET n == Len(s)
        blank(i) == CharAt(s, i) \in WhiteSpace
    IN  IF \A i \in 0..(n - 1) : blank(i) THEN ""
        ELSE LET first == CHOOSE i \in 0..(n - 1) :
                              ~blank(i) /\ \A j \in 0..(i - 1) : blank(j)
                 back == CHOOSE k \in 0..(n - 1) :
                              /\ ~blank(n - 1 - k)
                              /\ \A j \in (n - k)..(n - 1) : blank(j)
             IN  SubSeq(s, first + 1, n - back)

\* A value of type string | null.
Null == [isNull |-> TRUE, str |-> ""]
Str(s) == [isNull |-> FALSE, str |-> s]

\* The truthiness of a string | null taken for a null test: only null is
\* falsy.
Truthy_nullOnly(v) == ~v.isNull

\* JavaScript truthiness of a string | null: null and "" are falsy.
Truthy(v) == ~v.isNull /\ v.str # ""

\* v || "" on a string | null
OrEmpty(v) == IF Truthy(v) THEN v.str ELSE ""

-----------------------------------------------------------------------------
(* extractTag, identical in both providers *)

\* `<${tagName}>`
startTagOf(tagName) == "<" \o tagName \o ">"

\* `</${tagName}>`
endTagOf(tagName) == "</" \o tagName \o ">"

\* The slip of searching the closing tag from the front.
extractTag_firstClose(text, tagName) ==
    LET startTag == startTagOf(tagName)
        endTag == endTagOf(tagName)
        startIndex == indexOf(text, startTag)
        endIndex == indexOf(text, endTag)
    IN  IF startIndex = -1 \/ endIndex = -1 \/ startIndex >= endIndex
        THEN Null
        ELSE Str(trim(substring(text, startIndex + Len(startTag), endIndex)))

\* An extractTag that forgets to trim.
extractTag_untrimmed(text, tagName) ==
    LET startTag == startTagOf(tagName)
        endTag == endTagOf(tagName)
        startIndex == indexOf(text, startTag)
        endIndex == lastIndexOf(text, endTag)
    IN  IF startIndex = -1 \/ endIndex = -1 \/ startIndex >= endIndex
        THEN Null
        ELSE Str(substring(text, startIndex + Len(startTag), endIndex))

extractTag(text, tagName) ==
    LET startTag == startTagOf(tagName)
        endTag == endTagOf(tagName)
        startIndex == indexOf(text, startTag)
        endIndex == lastIndexOf(text, endTag)
    IN  IF startIndex = -1 \/ endIndex = -1 \/ startIndex >= endIndex
        THEN Null
        ELSE Str(trim(substring(text, startIndex + Len(startTag), endIndex)))

-----------------------------------------------------------------------------
(* Error values and handleError *)

\* new Error(message)
Err(message) == [isError |-> TRUE, message |-> message]

MsgMissingTags ==
    "Invalid AI response: Missing critical XML tags (<question_text>, <answer_text>, or <analysis>)"

MsgNoChoices == "AI_RESPONSE_ERROR: API returned empty or invalid response"

MsgEmptyResponse == "Empty response from AI"

\* The TypeError of reading choices[0] of a response without a choices array.
MsgTypeError == "Cannot read properties of undefined (reading '0')"

AI_CONNECTION_FAILED == "AI_CONNECTION_FAILED"
AI_RESPONSE_ERROR == "AI_RESPONSE_ERROR"
AI_AUTH_ERROR == "AI_AUTH_ERROR"
AI_UNKNOWN_ERROR == "AI_UNKNOWN_ERROR"

\* A handleError that tests the auth substrings before the response ones.
handleError_authFirst(error) ==
    IF error.isError
    THEN LET msg == toLowerCase(error.message)
         IN  IF \/ includes(msg, "fetch failed")
                \/ includes(msg, "network")
                \/ includes(msg, "connect")
             THEN Err(AI_CONNECTION_FAILED)
             ELSE IF \/ includes(msg, "api key")
                     \/ includes(msg, "unauthorized")
                     \/ includes(msg, "401")
             THEN Err(AI_AUTH_ERROR)
             ELSE IF includes(msg, "invalid json") \/ includes(msg, "parse")
             THEN Err(AI_RESPONSE_ERROR)
             ELSE Err(AI_UNKNOWN_ERROR)
    ELSE Err(AI_UNKNOWN_ERROR)

\* handleError, identical in both providers.  It never returns: the value
\* is the Error it throws.
handleError(error) ==
    IF error.isError
    THEN LET msg == toLowerCase(error.message)
         IN  IF \/ includes(msg, "fetch failed")
                \/ includes(msg, "network")
                \/ includes(msg, "connect")
             THEN Err(AI_CONNECTION_FAILED)
             ELSE IF includes(msg, "invalid json") \/ includes(msg, "parse")
             THEN Err(AI_RESPONSE_ERROR)
             ELSE IF \/ includes(msg, "api key")
                     \/ includes(msg, "unauthorized")
                     \/ includes(msg, "401")
             THEN Err(AI_AUTH_ERROR)
             ELSE Err(AI_UNKNOWN_ERROR)
    ELSE Err(AI_UNKNOWN_ERROR)

-----------------------------------------------------------------------------
(* parseResponse, identical in both providers *)

\* The ten subject names of the source, in its order; in the source they
\* are spelled U+6570 U+5B66, U+7269 U+7406, U+5316 U+5B66, U+751F U+7269,
\* U+82F1 U+8BED, U+8BED U+6587, U+5386 U+53F2, U+5730 U+7406,
\* U+653F U+6CBB, U+5176 U+4ED6.
validSubjects ==
    <<"shuxue", "wuli", "huaxue", "shengwu", "yingyu", "yuwen", "lishi",
      "dili", "zhengzhi", "qita">>

\* The catch-all subject, U+5176 U+4ED6.
QiTa == "qita"

\* Array.prototype.includes
arrayIncludes(array, x) == \E i \in 1..Len(array) : array[i] = x

\* The full-width comma U+FF0C.
FullWidthComma == "^"

\* The separators of /[,，\n]/: comma, full-width comma, newline.
Separators == {",", FullWidthComma, "\n"}

RECURSIVE split(_)
\* String.prototype.split(/[,，\n]/): the pieces between separators
split(s) ==
    LET seps == {i \in 0..(Len(s) - 1) : CharAt(s, i) \in Separators}
    IN  IF seps = {} THEN <<s>>
        ELSE LET i == CHOOSE j \in seps : \A k \in seps : j <= k
             IN  <<SubSeq(s, 1, i)>> \o split(SubSeq(s, i + 2, Len(s)))

\* A split that keeps the empty pieces.
splitKnowledgePoints_unfiltered(knowledgePointsRaw) ==
    LET pieces == split(knowledgePointsRaw)
    IN  [i \in 1..Len(pieces) |-> trim(pieces[i])]

\* knowledgePointsRaw.split(/[,，\n]/).map(k => k.trim())
\*                   .filter(k => k.length > 0)
splitKnowledgePoints(knowledgePointsRaw) ==
    LET pieces == split(knowledgePointsRaw)
        trimmed == [i \in 1..Len(pieces) |-> trim(pieces[i])]
    IN  SelectSeq(trimmed, LAMBDA k : Len(k) > 0)

\* A subject taken over from the reply without the membership test.
normalizeSubject_unchecked(subjectRaw) ==
    IF Truthy(subjectRaw) THEN subjectRaw.str ELSE QiTa

\* let subject = QiTa;
\* if (subjectRaw && validSubjects.includes(subjectRaw)) subject = subjectRaw;
normalizeSubject(subjectRaw) ==
    IF Truthy(subjectRaw) /\ arrayIncludes(validSubjects, subjectRaw.str)
    THEN subjectRaw.str
    ELSE QiTa

\* let knowledgePoints = [];
\* if (knowledgePointsRaw) knowledgePoints = knowledgePointsRaw.split(...)...
normalizeKnowledgePoints(knowledgePointsRaw) ==
    IF Truthy(knowledgePointsRaw)
    THEN splitKnowledgePoints(knowledgePointsRaw.str)
    ELSE <<>>

\* A comparison with 'true' that skips toLowerCase.
normalizeRequiresImage_caseSensitive(requiresImageRaw) ==
    /\ ~requiresImageRaw.isNull
    /\ trim(requiresImageRaw.str) = "true"

\* requiresImageRaw?.toLowerCase().trim() === 'true'
normalizeRequiresImage(requiresImageRaw) ==
    /\ ~requiresImageRaw.isNull
    /\ trim(toLowerCase(requiresImageRaw.str)) = "true"

\* The six extractTag calls at the head of parseResponse.
ExtractedFields(text) ==
    [questionText |-> extractTag(text, "question_text"),
     answerText |-> extractTag(text, "answer_text"),
     analysis |-> extractTag(text, "analysis"),
     subjectRaw |-> extractTag(text, "subject"),
     knowledgePointsRaw |-> extractTag(text, "knowledge_points"),
     requiresImageRaw |-> extractTag(text, "requires_image")]

\* A basic validation that looks at the question text only.
MissingCritical_questionOnly(fields) == ~Truthy(fields.questionText)

\* if (!questionText || !answerText || !analysis)
MissingCritical(fields) ==
    \/ ~Truthy(fields.questionText)
    \/ ~Truthy(fields.answerText)
    \/ ~Truthy(fields.analysis)

\* The record parseResponse assembles from the extracted fields.
AssembleResult(fields) ==
    [questionText |-> fields.questionText.str,
     answerText |-> fields.answerText.str,
     analysis |-> fields.analysis.str,
     subject |-> normalizeSubject(fields.subjectRaw),
     knowledgePoints |-> normalizeKnowledgePoints(fields.knowledgePointsRaw),
     requiresImage |-> normalizeRequiresImage(fields.requiresImageRaw)]

\* safeParseParsedQuestion of ./schema: the schema's verdict on the record
\* is an input (success), and a successful parse hands the record back as
\* its data.
safeParseParsedQuestion(result, success) ==
    [success |-> success, data |-> result]

\* The stages parseResponse has gone through when it throws for missing
\* tags, and when it returns.
StepsToBasicValidation == <<"extract", "basic_validation">>
StepsToReturn ==
    <<"extract", "basic_validation", "subject", "knowledge_points",
      "requires_image", "schema_validation">>

\* A parseResponse in which a failed schema validation is fatal.
parseResponse_strict(text, schemaAccepts) ==
    LET fields == ExtractedFields(text)
    IN  IF MissingCritical(fields)
        THEN [kind |-> "throw", error |-> Err(MsgMissingTags),
              steps |-> StepsToBasicValidation]
        ELSE LET result == AssembleResult(fields)
                 validation == safeParseParsedQuestion(result, schemaAccepts)
             IN  IF validation.success
                 THEN [kind |-> "return", value |-> validation.data,
                       validated |-> TRUE, steps |-> StepsToReturn]
                 ELSE [kind |-> "throw", error |-> Err(MsgMissingTags),
                       steps |-> StepsToReturn]

\* parseResponse(text).  schemaAccepts is the verdict of the schema of
\* ./schema on the assembled record.  The value says whether the call
\* returned or threw, and lists the stages it went through.
parseResponse(text, schemaAccepts) ==
    LET fields == ExtractedFields(text)
    IN  IF MissingCritical(fields)
        THEN [kind |-> "throw", error |-> Err(MsgMissingTags),
              steps |-> StepsToBasicValidation]
        ELSE LET result == AssembleResult(fields)
                 validation == safeParseParsedQuestion(result, schemaAccepts)
             IN  IF validation.success
                 THEN [kind |-> "return", value |-> validation.data,
                       validated |-> TRUE, steps |-> StepsToReturn]
                 ELSE [kind |-> "return", value |-> result,
                       validated |-> FALSE, steps |-> StepsToReturn]

\* A reanswer parse that insists on an answer.
reanswerParse_answerRequired(text) ==
    LET answerText == extractTag(text, "answer_text")
        analysis == OrEmpty(extractTag(text, "analysis"))
        knowledgePointsRaw == OrEmpty(extractTag(text, "knowledge_points"))
        knowledgePoints == splitKnowledgePoints(knowledgePointsRaw)
    IN  IF ~Truthy(answerText)
        THEN [kind |-> "throw", error |-> Err(MsgMissingTags)]
        ELSE [kind |-> "return",
              value |-> [answerText |-> answerText.str, analysis |-> analysis,
                         knowledgePoints |-> knowledgePoints]]

\* The parse at the end of reanswerQuestion, identical in both providers.
reanswerParse(text) ==
    LET answerText == OrEmpty(extractTag(text, "answer_text"))
        analysis == OrEmpty(extractTag(text, "analysis"))
        knowledgePointsRaw == OrEmpty(extractTag(text, "knowledge_points"))
        knowledgePoints == splitKnowledgePoints(knowledgePointsRaw)
    IN  [kind |-> "return",
         value |-> [answerText |-> answerText, analysis |-> analysis,
                    knowledgePoints |-> knowledgePoints]]

-----------------------------------------------------------------------------
(* Values of the variables a run does not use *)

NoBackend == [kind |-> "none", error |-> Null, content |-> Null]
NoParse == [kind |-> "none"]
NoOutcome == [kind |-> "none"]
NoHelperCall == [fn |-> "none"]
NoHelperResult == [kind |-> "none"]

-----------------------------------------------------------------------------
(* The three methods of the two providers, from the awaited backend call on *)

\* What a stage of the try block came to: a returned value or a thrown one.
Returned(value) == [kind |-> "return", value |-> value]
Thrown(error) == [kind |-> "throw", error |-> error]

\* The reply text of the OpenAI analyzeImage and reanswerQuestion: the
\* response is checked for a choices array first.
OpenAICheckedText(b) ==
    IF b.kind = "throws" THEN Thrown(b.error)
    ELSE IF b.kind \in {"no_choices", "empty_choices"}
    THEN Thrown(Err(MsgNoChoices))
    ELSE LET text == OrEmpty(b.content)
         IN  IF text = "" THEN Thrown(Err(MsgEmptyResponse))
             ELSE Returned(text)

\* The reply text of the OpenAI generateSimilarQuestion: choices[0] is read
\* without a check, a TypeError when the response has no choices array.
OpenAIUncheckedText(b) ==
    IF b.kind = "throws" THEN Thrown(b.error)
    ELSE IF b.kind = "no_choices" THEN Thrown(Err(MsgTypeError))
    ELSE LET text == IF b.kind = "empty_choices" THEN ""
                     ELSE OrEmpty(b.content)
         IN  IF text = "" THEN Thrown(Err(MsgEmptyResponse))
             ELSE Returned(text)

\* The reply text of the three Gemini methods: response.text().
GeminiText(b) ==
    IF b.kind = "throws" THEN Thrown(b.error)
    ELSE LET text == b.content.str
         IN  IF text = "" THEN Thrown(Err(MsgEmptyResponse))
             ELSE Returned(text)

\* The reply text of provider p's method f.
ReplyText(p, f, b) ==
    IF p = "gemini" THEN GeminiText(b)
    ELSE IF f = "similar" THEN OpenAIUncheckedText(b)
    ELSE OpenAICheckedText(b)

\* The parse of method f on a reply text.
Parse(f, text, schemaAccepts) ==
    IF f = "reanswer" THEN reanswerParse(text)
    ELSE parseResponse(text, schemaAccepts)

\* A catch block that rethrows the value it caught.
Catch_rethrow(error) == [kind |-> "error", error |-> error]

\* catch (error) { this.handleError(error); throw error; }
Catch(error) == [kind |-> "error", error |-> handleError(error)]

\* What reaches the caller: the parsed value, or what the catch block throws
\* for the failure of the reply text or of the parse.
Completion(reply, parse) ==
    IF reply.kind = "throw" THEN Catch(reply.error)
    ELSE IF parse.kind = "throw" THEN Catch(parse.error)
    ELSE [kind |-> "result", value |-> parse.value]

\* The rest of method f of provider p once the awaited call has produced b:
\* the reply text is taken and parsed, and the method returns or throws.
\* The value holds the method's local text, what the parse came to, what
\* reaches the caller, and how many times the catch block called
\* handleError.
MethodRun(p, f, b, schemaAccepts) ==
    LET reply == ReplyText(p, f, b)
        parse == IF reply.kind = "return"
                 THEN Parse(f, reply.value, schemaAccepts)
                 ELSE NoParse
    IN  [text |-> IF reply.kind = "return" THEN reply.value ELSE "",
         parse |-> parse,
         completion |-> Completion(reply, parse),
         handled |-> IF reply.kind = "throw" \/ parse.kind = "throw"
                     THEN 1 ELSE 0]

-----------------------------------------------------------------------------
(* Runs of the extractor alone: extractTag applied to assembled texts *)

\* The two tag names the extractor runs use; extractTag treats all alike.
ExtractTagNames == {"analysis", "answer_text"}

\* The pieces an extractor input is assembled from, for tag name tagName:
\* its delimiters, whitespace, content and a stray "<".
Pieces(tagName) ==
    {startTagOf(tagName), endTagOf(tagName), " ", "\n", "x", "<"}

RECURSIVE Concat(_)
Concat(pieces) ==
    IF pieces = <<>> THEN "" ELSE Head(pieces) \o Concat(Tail(pieces))

AssembledTexts(tagName) ==
    {Concat(ps) : ps \in UNION {[1..k -> Pieces(tagName)] : k \in 0..MaxPieces}}

ExampleText == "<analysis>uses </analysis> as an example</analysis>"

ExtractInit ==
    /\ pc = "input"
    /\ tag \in ExtractTagNames
    /\ rawText \in AssembledTexts(tag) \cup {ExampleText}
    /\ extracted = Null
    /\ provider = "none"
    /\ flow = "none"
    /\ requests = 0
    /\ backend = NoBackend
    /\ parsed = NoParse
    /\ outcome = NoOutcome
    /\ handled = 0
    /\ helperCall = NoHelperCall
    /\ helperResult = NoHelperResult

\* One call extractTag(rawText, tag).
ExtractTag ==
    /\ pc = "input"
    /\ pc' = "extracted"
    /\ extracted' = extractTag(rawText, tag)
    /\ UNCHANGED <<provider, flow, requests, backend, rawText, tag, parsed,
                   outcome, handled, helperCall, helperResult>>

ExtractNext == ExtractTag

SpecExtract == ExtractInit /\ [][ExtractNext]_vars

-----------------------------------------------------------------------------
(* What the LLM backend can produce *)

BackendMessages ==
    {"fetch failed",
     "Network Error",
     "Connection error.",
     "401 Incorrect API key provided",
     "Unauthorized",
     "Failed to parse response",
     "Invalid JSON",
     "429 You exceeded your current quota",
     "Failed to parse: 401 Unauthorized",
     "Connection refused: invalid API key",
     "Network reply was invalid json"}

\* What the awaited call can throw: an Error with one of the messages, or a
\* value that is not an Error (a thrown string).
BackendErrors ==
    {Err(m) : m \in BackendMessages}
        \cup {[isError |-> FALSE, message |-> "fetch failed"]}

\* `<tagName>content</tagName>`
Wrap(tagName, content) == startTagOf(tagName) \o content \o endTagOf(tagName)

QuestionBlocks ==
    {"",
     Wrap("question_text", ""),
     Wrap("question_text", " \n"),
     Wrap("question_text", "\n1+1=?\n")}

AnswerBlocks ==
    {"",
     Wrap("answer_text", " 2"),
     "</answer_text>2<answer_text>"}

AnalysisBlocks ==
    {"",
     Wrap("analysis", "\nadd\n"),
     Wrap("analysis", "\t\r\n"),
     ExampleText}

SubjectBlocks ==
    {"",
     Wrap("subject", "\nshuxue\n"),
     Wrap("subject", "Math")}

KnowledgePointBlocks ==
    {"",
     Wrap("knowledge_points", "A, B" \o FullWidthComma \o "C\nD")}

RequiresImageBlocks ==
    {"",
     Wrap("requires_image", "True")}

\* Replies in which every block varies against every other.
CrossedReplies ==
    {q \o a \o n \o s \o k \o r :
        q \in QuestionBlocks, a \in AnswerBlocks, n \in AnalysisBlocks,
        s \in SubjectBlocks, k \in KnowledgePointBlocks,
        r \in RequiresImageBlocks}

\* A reply with the three required tags, to which one more block is added.
GoodCore ==
    Wrap("question_text", "1+1=?") \o "\n" \o Wrap("answer_text", "2")
        \o "\n" \o Wrap("analysis", "add") \o "\n"

MoreSubjectBlocks ==
    {Wrap("subject", validSubjects[i]) : i \in 1..Len(validSubjects)}
        \cup {Wrap("subject", ""),
              Wrap("subject", "shuxuewuli"),
              Wrap("subject", "shu"),
              Wrap("subject", "Shuxue"),
              Wrap("subject", "shuxue (M)")}

MoreKnowledgePointBlocks ==
    {Wrap("knowledge_points", ""),
     Wrap("knowledge_points", " ,\n" \o FullWidthComma \o " "),
     Wrap("knowledge_points", "A"),
     Wrap("knowledge_points", ",A B,,C,")}

MoreRequiresImageBlocks ==
    {Wrap("requires_image", " true "),
     Wrap("requires_image", "TRUE "),
     Wrap("requires_image", "false"),
     Wrap("requires_image", ""),
     Wrap("requires_image", "true!")}

\* Prose the model may put around the tagged blocks.
Prose == "Sure!\n"

VariedReplies ==
    {GoodCore \o b :
        b \in MoreSubjectBlocks \cup MoreKnowledgePointBlocks
                \cup MoreRequiresImageBlocks}
        \cup {Prose \o GoodCore \o Prose, Prose}

ReplyTexts == CrossedReplies \cup VariedReplies

\* What the awaited backend call of provider p can produce: a thrown value,
\* a reply text (possibly empty) and, for the OpenAI SDK, a response with no
\* choices array, with an empty one, or with a null message content.
BackendOutcomes(p) ==
    {[kind |-> "throws", error |-> e, content |-> Null] : e \in BackendErrors}
        \cup {[kind |-> "content", error |-> Null, content |-> Str(t)] :
                 t \in ReplyTexts \cup {""}}
        \cup (IF p = "openai"
              THEN {[kind |-> "no_choices", error |-> Null, content |-> Null],
                    [kind |-> "empty_choices", error |-> Null,
                     content |-> Null],
                    [kind |-> "content", error |-> Null, content |-> Null]}
              ELSE {})

-----------------------------------------------------------------------------
(* One invocation of a provider method *)

Providers == {"openai", "gemini"}
Flows == {"analyze", "similar", "reanswer"}

Init ==
    /\ pc = "idle"
    /\ provider = "none"
    /\ flow = "none"
    /\ requests = 0
    /\ backend = NoBackend
    /\ rawText = ""
    /\ tag = ""
    /\ extracted = Null
    /\ parsed = NoParse
    /\ outcome = NoOutcome
    /\ handled = 0
    /\ helperCall = NoHelperCall
    /\ helperResult = NoHelperResult

\* The caller invokes method f of provider p: the prompt is built and the
\* request is issued; the method then awaits the backend.
Invoke(p, f) ==
    /\ pc = "idle"
    /\ pc' = "awaiting"
    /\ provider' = p
    /\ flow' = f
    /\ requests' = requests + 1
    /\ UNCHANGED <<backend, rawText, tag, extracted, parsed, outcome, handled,
                   helperCall, helperResult>>

\* An analyzeImage that issues its request once more when the first attempt
\* fails.
OpenAIAnalyzeImage_retry ==
    /\ pc = "awaiting" /\ provider = "openai" /\ flow = "analyze"
    /\ \E b \in BackendOutcomes("openai"), schemaAccepts \in BOOLEAN :
          /\ backend' = b
          /\ \E run \in {MethodRun("openai", "analyze", b, schemaAccepts)} :
              /\ rawText' = run.text
              /\ parsed' = run.parse
              /\ outcome' = run.completion
              /\ IF run.completion.kind = "error" /\ requests < 2
                 THEN /\ pc' = "awaiting"
                      /\ requests' = requests + 1
                      /\ handled' = handled
                 ELSE /\ pc' = "done"
                      /\ requests' = requests
                      /\ handled' = handled + run.handled
    /\ UNCHANGED <<provider, flow, tag, extracted, helperCall, helperResult>>

OpenAIAnalyzeImage ==
    /\ pc = "awaiting" /\ provider = "openai" /\ flow = "analyze"
    /\ \E b \in BackendOutcomes("openai"), schemaAccepts \in BOOLEAN :
          /\ backend' = b
          /\ \E run \in {MethodRun("openai", "analyze", b, schemaAccepts)} :
              /\ rawText' = run.text
              /\ parsed' = run.parse
              /\ outcome' = run.completion
              /\ handled' = handled + run.handled
    /\ pc' = "done"
    /\ UNCHANGED <<provider, flow, requests, tag, extracted, helperCall,
                   helperResult>>

OpenAIGenerateSimilarQuestion ==
    /\ pc = "awaiting" /\ provider = "openai" /\ flow = "similar"
    /\ \E b \in BackendOutcomes("openai"), schemaAccepts \in BOOLEAN :
          /\ backend' = b
          /\ \E run \in {MethodRun("openai", "similar", b, schemaAccepts)} :
              /\ rawText' = run.text
              /\ parsed' = run.parse
              /\ outcome' = run.completion
              /\ handled' = handled + run.handled
    /\ pc' = "done"
    /\ UNCHANGED <<provider, flow, requests, tag, extracted, helperCall,
                   helperResult>>

OpenAIReanswerQuestion ==
    /\ pc = "awaiting" /\ provider = "openai" /\ flow = "reanswer"
    /\ \E b \in BackendOutcomes("openai") :
          /\ backend' = b
          /\ \E run \in {MethodRun("openai", "reanswer", b, TRUE)} :
              /\ rawText' = run.text
              /\ parsed' = run.parse
              /\ outcome' = run.completion
              /\ handled' = handled + run.handled
    /\ pc' = "done"
    /\ UNCHANGED <<provider, flow, requests, tag, extracted, helperCall,
                   helperResult>>

GeminiAnalyzeImage ==
    /\ pc = "awaiting" /\ provider = "gemini" /\ flow = "analyze"
    /\ \E b \in BackendOutcomes("gemini"), schemaAccepts \in BOOLEAN :
          /\ backend' = b
          /\ \E run \in {MethodRun("gemini", "analyze", b, schemaAccepts)} :
              /\ rawText' = run.text
              /\ parsed' = run.parse
              /\ outcome' = run.completion
              /\ handled' = handled + run.handled
    /\ pc' = "done"
    /\ UNCHANGED <<provider, flow, requests, tag, extracted, helperCall,
                   helperResult>>

GeminiGenerateSimilarQuestion ==
    /\ pc = "awaiting" /\ provider = "gemini" /\ flow = "similar"
    /\ \E b \in BackendOutcomes("gemini"), schemaAccepts \in BOOLEAN :
          /\ backend' = b
          /\ \E run \in {MethodRun("gemini", "similar", b, schemaAccepts)} :
              /\ rawText' = run.text
              /\ parsed' = run.parse
              /\ outcome' = run.completion
              /\ handled' = handled + run.handled
    /\ pc' = "done"
    /\ UNCHANGED <<provider, flow, requests, tag, extracted, helperCall,
                   helperResult>>

GeminiReanswerQuestion ==
    /\ pc = "awaiting" /\ provider = "gemini" /\ flow = "reanswer"
    /\ \E b \in BackendOutcomes("gemini") :
          /\ backend' = b
          /\ \E run \in {MethodRun("gemini", "reanswer", b, TRUE)} :
              /\ rawText' = run.text
              /\ parsed' = run.parse
              /\ outcome' = run.completion
              /\ handled' = handled + run.handled
    /\ pc' = "done"
    /\ UNCHANGED <<provider, flow, requests, tag, extracted, helperCall,
                   helperResult>>

Next ==
    \/ \E p \in Providers, f \in Flows : Invoke(p, f)
    \/ OpenAIAnalyzeImage
    \/ OpenAIGenerateSimilarQuestion
    \/ OpenAIReanswerQuestion
    \/ GeminiAnalyzeImage
    \/ GeminiGenerateSimilarQuestion
    \/ GeminiReanswerQuestion

Spec == Init /\ [][Next]_vars

\* The step a method takes once its awaited backend call has settled, seen
\* on pc: every step of Next from "awaiting" to "done" is a step of one of
\* the six methods.
AwaitSettles == pc = "awaiting" /\ pc' = "done"

\* Every method body is straight-line code behind one await: once the
\* awaited backend call settles, by resolving or by rejecting, the method
\* runs to its return or to its throw.
FairSpec == Spec /\ WF_pc(AwaitSettles)

-----------------------------------------------------------------------------
(* C1 *)

Min(S) == CHOOSE m \in S : \A n \in S : m <= n
Max(S) == CHOOSE m \in S : \A n \in S : m >= n

\* The 0-based positions at which pattern occurs in s.
Occurrences(s, pattern) ==
    {i \in 0..(Len(s) - Len(pattern)) :
        SubSeq(s, i + 1, i + Len(pattern)) = pattern}

\* r is s without its leading and trailing whitespace.
IsTrimOf(r, s) ==
    /\ r # "" => /\ SubSeq(r, 1, 1) \notin WhiteSpace
                 /\ SubSeq(r, Len(r), Len(r)) \notin WhiteSpace
    /\ \E a \in 0..Len(s) :
          /\ a + Len(r) <= Len(s)
          /\ \A k \in 1..a : SubSeq(s, k, k) \in WhiteSpace
          /\ SubSeq(s, a + 1, a + Len(r)) = r
          /\ \A k \in (a + Len(r) + 1)..Len(s) : SubSeq(s, k, k) \in WhiteSpace

\* C1: extractTag yields absent exactly when the opening delimiter does not
\* occur, or the closing delimiter does not occur, or the first opening
\* delimiter is not strictly before the last closing delimiter; otherwise it
\* returns the text strictly between the end of the first opening delimiter
\* and the start of the last closing delimiter, trimmed, a span that never
\* has negative length; the spec's example yields `uses </analysis> as an
\* example`.
C1_ExtractTagContract ==
    pc = "extracted" =>
        LET opens == Occurrences(rawText, "<" \o tag \o ">")
            closes == Occurrences(rawText, "</" \o tag \o ">")
            absent == \/ opens = {}
                      \/ closes = {}
                      \/ ~(Min(opens) < Max(closes))
        IN  /\ extracted.isNull <=> absent
            /\ ~absent =>
                  LET from == Min(opens) + Len(tag) + 2
                      to == Max(closes)
                  IN  /\ from <= to
                      /\ IsTrimOf(extracted.str, SubSeq(rawText, from + 1, to))
            /\ (rawText = ExampleText /\ tag = "analysis") =>
                  extracted = Str("uses </analysis> as an example")

\* C1 witness: a text with two closing delimiters after the opening one has
\* been extracted up to the last of them, with whitespace trimmed away.
C1_Witness ==
    /\ pc = "extracted"
    /\ ~extracted.isNull
    /\ Cardinality(Occurrences(rawText, "</" \o tag \o ">")) >= 2
    /\ Occurrences(extracted.str, "</" \o tag \o ">") # {}
    /\ Len(extracted.str) + 2 * Len(tag) + 5 < Len(rawText)

-----------------------------------------------------------------------------
(* What the claims about parse speak of, stated on the text itself *)

OpenPositions(text, name) == Occurrences(text, "<" \o name \o ">")
ClosePositions(text, name) == Occurrences(text, "</" \o name \o ">")

\* The text contains the tag: an opening delimiter whose first occurrence is
\* before the last occurrence of the closing delimiter.
TagPresent(text, name) ==
    /\ OpenPositions(text, name) # {}
    /\ ClosePositions(text, name) # {}
    /\ Min(OpenPositions(text, name)) < Max(ClosePositions(text, name))

\* The inter-tag content of a tag the text contains.
InterTag(text, name) ==
    LET from == Min(OpenPositions(text, name)) + Len(name) + 2
        to == Max(ClosePositions(text, name))
    IN  SubSeq(text, from + 1, to)

AllWhiteSpace(s) == \A k \in 1..Len(s) : SubSeq(s, k, k) \in WhiteSpace

\* The text contains the tag with content that is not empty once trimmed.
TagFilled(text, name) ==
    TagPresent(text, name) /\ ~AllWhiteSpace(InterTag(text, name))

\* parseResponse ran on rawText in an analyze or generate-similar invocation.
ParseRan ==
    /\ pc = "done"
    /\ flow \in {"analyze", "similar"}
    /\ parsed.kind \in {"return", "throw"}

-----------------------------------------------------------------------------
(* C2 *)

\* C2 as stated: for all inputs containing all three required tags, parse
\* returns a record whose questionText, answerText and analysis equal the
\* trimmed inter-tag content of the corresponding tag.
C2_Original ==
    (/\ ParseRan
     /\ TagPresent(rawText, "question_text")
     /\ TagPresent(rawText, "answer_text")
     /\ TagPresent(rawText, "analysis"))
    => /\ parsed.kind = "return"
       /\ IsTrimOf(parsed.value.questionText,
                   InterTag(rawText, "question_text"))
       /\ IsTrimOf(parsed.value.answerText, InterTag(rawText, "answer_text"))
       /\ IsTrimOf(parsed.value.analysis, InterTag(rawText, "analysis"))

\* C2 amended: for all inputs containing all three required tags, each with
\* content that is not empty once trimmed, parse returns a record whose
\* questionText, answerText and analysis equal the trimmed inter-tag content
\* of the corresponding tag.
C2_FilledTagsParse ==
    (/\ ParseRan
     /\ TagFilled(rawText, "question_text")
     /\ TagFilled(rawText, "answer_text")
     /\ TagFilled(rawText, "analysis"))
    => /\ parsed.kind = "return"
       /\ IsTrimOf(parsed.value.questionText,
                   InterTag(rawText, "question_text"))
       /\ IsTrimOf(parsed.value.answerText, InterTag(rawText, "answer_text"))
       /\ IsTrimOf(parsed.value.analysis, InterTag(rawText, "analysis"))

\* C2 witness: a record was returned whose three texts are shorter than the
\* inter-tag content they were trimmed from.
C2_Witness ==
    /\ ParseRan
    /\ parsed.kind = "return"
    /\ Len(parsed.value.questionText)
          < Len(InterTag(rawText, "question_text"))
    /\ Len(parsed.value.answerText) < Len(InterTag(rawText, "answer_text"))
    /\ Len(parsed.value.analysis) < Len(InterTag(rawText, "analysis"))

-----------------------------------------------------------------------------
(* C3 *)

NormalizationSteps ==
    {"subject", "knowledge_points", "requires_image", "schema_validation"}

\* C3: for all inputs missing any of the question_text, answer_text or
\* analysis tags, parse fails with the missing-fields error and returns no
\* record, not even a partial one; the failure is raised before subject,
\* knowledge-point and requires-image normalization and before schema
\* validation, and no record reaches the caller.
C3_MissingTagFails ==
    (/\ ParseRan
     /\ \/ ~TagPresent(rawText, "question_text")
        \/ ~TagPresent(rawText, "answer_text")
        \/ ~TagPresent(rawText, "analysis"))
    => /\ parsed.kind = "throw"
       /\ parsed.error = Err(MsgMissingTags)
       /\ "value" \notin DOMAIN parsed
       /\ \A i \in 1..Len(parsed.steps) :
             parsed.steps[i] \notin NormalizationSteps
       /\ outcome.kind = "error"

\* C3 witness: parse threw on a text that lacks answer_text and holds filled
\* question_text and analysis tags.
C3_Witness ==
    /\ ParseRan
    /\ TagFilled(rawText, "question_text")
    /\ ~TagPresent(rawText, "answer_text")
    /\ TagFilled(rawText, "analysis")
    /\ parsed.kind = "throw"

-----------------------------------------------------------------------------
(* C4 *)

ClassifiedMessages ==
    {AI_CONNECTION_FAILED, AI_RESPONSE_ERROR, AI_AUTH_ERROR, AI_UNKNOWN_ERROR}

\* C4: when the reply of the analyze or generate-similar flow lacks a
\* required tag, the error that reaches the caller is the missing-fields
\* error, distinguishable from the connection, auth, response and unknown
\* kinds.
C4_MissingFieldsReachesCaller ==
    (/\ ParseRan
     /\ \/ ~TagPresent(rawText, "question_text")
        \/ ~TagPresent(rawText, "answer_text")
        \/ ~TagPresent(rawText, "analysis"))
    => /\ outcome.kind = "error"
       /\ outcome.error = Err(MsgMissingTags)
       /\ outcome.error.message \notin ClassifiedMessages

-----------------------------------------------------------------------------
(* C5 *)

\* The backend returned an empty or malformed payload: no choices array, an
\* empty one, or an empty reply text.
MalformedPayload ==
    \/ backend.kind \in {"no_choices", "empty_choices"}
    \/ backend.kind = "content" /\ backend.content.str = ""

\* C5: in every flow of either provider, when the backend returns an empty
\* or malformed payload the error that reaches the caller is the response
\* error kind, AI_RESPONSE_ERROR.
C5_MalformedPayloadIsResponseError ==
    (pc = "done" /\ MalformedPayload)
    => /\ outcome.kind = "error"
       /\ outcome.error.message = AI_RESPONSE_ERROR

-----------------------------------------------------------------------------
(* C6 *)

\* Two characters that are the same letter up to case.
SameLetter(x, y) ==
    \/ x = y
    \/ \E i \in 1..Len(UpperChars) :
           {x, y} = {UpperChars[i], LowerChars[i]}

\* The message contains the substring, case-insensitively.
ContainsCI(message, sub) ==
    \E i \in 0..(Len(message) - Len(sub)) :
        \A k \in 1..Len(sub) :
            SameLetter(SubSeq(message, i + k, i + k), SubSeq(sub, k, k))

SaysConnection(message) ==
    \/ ContainsCI(message, "network")
    \/ ContainsCI(message, "connect")
    \/ ContainsCI(message, "fetch failed")

SaysAuth(message) ==
    \/ ContainsCI(message, "api key")
    \/ ContainsCI(message, "unauthorized")
    \/ ContainsCI(message, "401")

SaysResponse(message) ==
    \/ ContainsCI(message, "parse")
    \/ ContainsCI(message, "invalid json")

\* The awaited backend call threw, and the method has ended.
BackendFailed == pc = "done" /\ backend.kind = "throws"

\* C6 as stated, for thrown Error objects: a message containing "network",
\* "connect" or "fetch failed" is rethrown as the connection error, one
\* containing "api key", "unauthorized" or "401" as the auth error, one
\* containing "parse" or "invalid json" as the response error, and every
\* other failure as the unknown error.
C6_Original ==
    (BackendFailed /\ backend.error.isError)
    => LET message == backend.error.message
       IN  /\ outcome.kind = "error"
           /\ SaysConnection(message)
                 => outcome.error.message = AI_CONNECTION_FAILED
           /\ SaysAuth(message) => outcome.error.message = AI_AUTH_ERROR
           /\ SaysResponse(message)
                 => outcome.error.message = AI_RESPONSE_ERROR
           /\ (/\ ~SaysConnection(message)
               /\ ~SaysAuth(message)
               /\ ~SaysResponse(message))
                 => outcome.error.message = AI_UNKNOWN_ERROR

\* C6 amended: the classification of a backend failure depends only on
\* whether the thrown value is an Error and on its lower-cased message,
\* tested in this order: "network", "connect" or "fetch failed" gives the
\* connection error; otherwise "parse" or "invalid json" gives the response
\* error; otherwise "api key", "unauthorized" or "401" gives the auth error;
\* every other failure, a thrown value that is not an Error included, gives
\* the unknown error.  Matching is case-insensitive.
C6_ClassificationInOrder ==
    BackendFailed
    => LET message == backend.error.message
           isError == backend.error.isError
           expected ==
               IF ~isError THEN AI_UNKNOWN_ERROR
               ELSE IF SaysConnection(message) THEN AI_CONNECTION_FAILED
               ELSE IF SaysResponse(message) THEN AI_RESPONSE_ERROR
               ELSE IF SaysAuth(message) THEN AI_AUTH_ERROR
               ELSE AI_UNKNOWN_ERROR
       IN  /\ outcome.kind = "error"
           /\ outcome.error = Err(expected)

\* C6 witness: a thrown Error whose message names both a response and an
\* auth substring, in mixed case, has been rethrown as the response error.
C6_Witness ==
    /\ BackendFailed
    /\ backend.error.isError
    /\ SaysResponse(backend.error.message)
    /\ SaysAuth(backend.error.message)
    /\ Occurrences(backend.error.message, "unauthorized") = {}
    /\ outcome.error.message = AI_RESPONSE_ERROR

-----------------------------------------------------------------------------
(* C7 *)

\* C7: schema validation in parse is never fatal: for every input in which
\* question_text, answer_text and analysis are present and non-empty, parse
\* returns a record whether schema validation succeeds or fails, and the
\* record reaches the caller with no error raised; when validation fails
\* the record returned is exactly the extracted and normalized record.
C7_ValidationNeverFatal ==
    (/\ ParseRan
     /\ TagFilled(rawText, "question_text")
     /\ TagFilled(rawText, "answer_text")
     /\ TagFilled(rawText, "analysis"))
    => /\ parsed.kind = "return"
       /\ outcome.kind = "result"
       /\ outcome.value = parsed.value
       /\ ~parsed.validated =>
             parsed.value = AssembleResult(ExtractedFields(rawText))

\* C7 witness: schema validation rejected the assembled record, and the
\* record reached the caller all the same.
C7_Witness ==
    /\ ParseRan
    /\ parsed.kind = "return"
    /\ ~parsed.validated
    /\ outcome.kind = "result"
    /\ outcome.value.questionText # ""

-----------------------------------------------------------------------------
(* C8 *)

\* The reanswer method has ended after the backend produced a reply text.
ReanswerReplied ==
    /\ pc = "done"
    /\ flow = "reanswer"
    /\ backend.kind = "content"
    /\ ~backend.content.isNull

\* What the claim says of the record the reanswer parse returns for text.
ReanswerRecordFor(record, text) ==
    /\ IF TagPresent(text, "answer_text")
       THEN IsTrimOf(record.answerText, InterTag(text, "answer_text"))
       ELSE record.answerText = ""
    /\ IF TagPresent(text, "analysis")
       THEN IsTrimOf(record.analysis, InterTag(text, "analysis"))
       ELSE record.analysis = ""
    /\ ~TagPresent(text, "knowledge_points") => record.knowledgePoints = <<>>
    /\ (/\ TagPresent(text, "knowledge_points")
        /\ InterTag(text, "knowledge_points")
              = "A, B" \o FullWidthComma \o "C\nD")
          => record.knowledgePoints = <<"A", "B", "C", "D">>

\* C8 as stated: for every reply text the reanswer flow returns a record in
\* which each absent answer_text or analysis is the empty string, an absent
\* knowledge_points the empty sequence, and each present field its trimmed
\* content.
C8_Original ==
    ReanswerReplied
    => /\ outcome.kind = "result"
       /\ ReanswerRecordFor(outcome.value, backend.content.str)

\* C8 amended: for every non-empty reply text the reanswer flow returns a
\* record, without throwing, in which each absent answer_text or analysis
\* is the empty string, an absent knowledge_points the empty sequence, and
\* each present field its trimmed content.
C8_ReanswerNeverFailsOnAbsentField ==
    (ReanswerReplied /\ backend.content.str # "")
    => /\ parsed.kind = "return"
       /\ outcome.kind = "result"
       /\ outcome.value = parsed.value
       /\ ReanswerRecordFor(outcome.value, backend.content.str)

\* C8 witness: a reply with analysis and knowledge_points and no
\* answer_text came back with an empty answerText, the analysis content and
\* the split knowledge points.
C8_Witness ==
    /\ ReanswerReplied
    /\ ~TagPresent(rawText, "answer_text")
    /\ ~TagPresent(rawText, "question_text")
    /\ outcome.kind = "result"
    /\ outcome.value.answerText = ""
    /\ outcome.value.analysis = "add"
    /\ outcome.value.knowledgePoints = <<"A", "B", "C", "D">>

-----------------------------------------------------------------------------
(* C9 *)

\* The ten fixed subject names.
TenSubjectNames ==
    {"shuxue", "wuli", "huaxue", "shengwu", "yingyu", "yuwen", "lishi",
     "dili", "zhengzhi", "qita"}

\* The text has no leading or trailing whitespace and is not empty.
TrimmedNonEmpty(s) ==
    /\ s # ""
    /\ SubSeq(s, 1, 1) \notin WhiteSpace
    /\ SubSeq(s, Len(s), Len(s)) \notin WhiteSpace

ValidRecord(record) ==
    /\ record.questionText # ""
    /\ record.answerText # ""
    /\ record.analysis # ""
    /\ record.subject \in TenSubjectNames
    /\ \A i \in 1..Len(record.knowledgePoints) :
          TrimmedNonEmpty(record.knowledgePoints[i])
    /\ record.requiresImage \in BOOLEAN

\* C9: every record returned by parse has non-empty questionText,
\* answerText and analysis, a subject that is one of the ten fixed subject
\* names, and knowledgePoints whose every entry is trimmed and non-empty;
\* no record violating this is returned by the analyze or generate-similar
\* flow.
C9_ReturnedRecordsValid ==
    /\ (ParseRan /\ parsed.kind = "return") => ValidRecord(parsed.value)
    /\ (/\ pc = "done"
        /\ flow \in {"analyze", "similar"}
        /\ outcome.kind = "result")
          => ValidRecord(outcome.value)

\* C9 witness: a record with an unrecognised subject text and several
\* knowledge points has been returned by the generate-similar flow.
C9_Witness ==
    /\ ParseRan
    /\ flow = "similar"
    /\ outcome.kind = "result"
    /\ TagFilled(rawText, "subject")
    /\ InterTag(rawText, "subject") \notin TenSubjectNames
    /\ Len(outcome.value.knowledgePoints) >= 3

-----------------------------------------------------------------------------
(* C10 *)

\* C10: when the extracted subject text exactly equals one of the ten fixed
\* subject names the record's subject is that name unchanged; when the
\* subject tag is absent, empty or any other text the record's subject is
\* the catch-all value.
C10_SubjectNormalization ==
    (ParseRan /\ parsed.kind = "return")
    => LET matches ==
               {name \in TenSubjectNames :
                   /\ TagPresent(rawText, "subject")
                   /\ IsTrimOf(name, InterTag(rawText, "subject"))}
       IN  IF matches # {}
           THEN parsed.value.subject \in matches
           ELSE parsed.value.subject = "qita"

\* C10 witness: a reply whose subject tag holds the second of the ten names
\* has been parsed into a record with that subject.
C10_Witness ==
    /\ ParseRan
    /\ parsed.kind = "return"
    /\ TagPresent(rawText, "subject")
    /\ InterTag(rawText, "subject") = "wuli"
    /\ parsed.value.subject = "wuli"
    /\ outcome.kind = "result"
    /\ outcome.value.subject = "wuli"

-----------------------------------------------------------------------------
(* C11 *)

RECURSIVE PiecesFrom(_, _, _)
\* The pieces of s from its i-th character on, read character by character:
\* a comma, a full-width comma or a newline ends the piece under way.
PiecesFrom(s, i, piece) ==
    IF i > Len(s) THEN <<piece>>
    ELSE IF SubSeq(s, i, i) \in {",", "^", "\n"}
    THEN <<piece>> \o PiecesFrom(s, i + 1, "")
    ELSE PiecesFrom(s, i + 1, piece \o SubSeq(s, i, i))

\* The piece without its surrounding whitespace.
Trimmed(piece) ==
    CHOOSE r \in {SubSeq(piece, a, b) : a \in 1..(Len(piece) + 1),
                                        b \in 0..Len(piece)} :
        IsTrimOf(r, piece)

\* The knowledge points the claim expects for an extracted text.
ExpectedPoints(s) ==
    LET pieces == PiecesFrom(s, 1, "")
        kept == SelectSeq(pieces, LAMBDA x : ~AllWhiteSpace(x))
    IN  [i \in 1..Len(kept) |-> Trimmed(kept[i])]

\* A record with knowledge points was produced from rawText, by
\* parseResponse or by the reanswer parse.
PointsProduced == pc = "done" /\ parsed.kind = "return"

\* C11: in parse and in reanswer, the knowledge_points text is split on
\* ASCII comma, full-width comma or newline, each piece is trimmed, empty
\* pieces are discarded and the others keep their order; `A, B，C\nD` yields
\* [A, B, C, D], text of separators and whitespace only yields the empty
\* sequence, and an absent tag yields the empty sequence.
C11_KnowledgePointsSplit ==
    PointsProduced
    => LET points == parsed.value.knowledgePoints
       IN  /\ outcome.kind = "result"
           /\ outcome.value.knowledgePoints = points
           /\ ~TagPresent(rawText, "knowledge_points") => points = <<>>
           /\ TagPresent(rawText, "knowledge_points") =>
                 LET content == InterTag(rawText, "knowledge_points")
                 IN  /\ points = ExpectedPoints(content)
                     /\ content = "A, B^C\nD" =>
                           points = <<"A", "B", "C", "D">>
                     /\ (\A k \in 1..Len(content) :
                            SubSeq(content, k, k)
                                \in WhiteSpace \cup {",", "^"})
                           => points = <<>>

\* C11 witness: the reanswer parse has split a text with a leading, a
\* doubled and a trailing comma into its two non-empty pieces.
C11_Witness ==
    /\ PointsProduced
    /\ flow = "reanswer"
    /\ TagPresent(rawText, "knowledge_points")
    /\ InterTag(rawText, "knowledge_points") = ",A B,,C,"
    /\ outcome.kind = "result"
    /\ outcome.value.knowledgePoints = <<"A B", "C">>

-----------------------------------------------------------------------------
(* C12 *)

\* The content, trimmed, is the literal "true" up to the case of its
\* letters.
SaysTrue(content) ==
    \E r \in {SubSeq(content, a, a + 3) : a \in 1..(Len(content) - 3)} :
        /\ IsTrimOf(r, content)
        /\ Len(r) = 4
        /\ \A k \in 1..4 : SameLetter(SubSeq(r, k, k), SubSeq("true", k, k))

\* C12: the record's requiresImage is true exactly when the requires_image
\* tag is present and its content, trimmed and compared case-insensitively,
\* equals "true" ("True", " true ", "TRUE " give true); any other content,
\* empty content and an absent tag give false.
C12_RequiresImage ==
    (ParseRan /\ parsed.kind = "return")
    => LET present == TagPresent(rawText, "requires_image")
           content == InterTag(rawText, "requires_image")
       IN  /\ parsed.value.requiresImage
                 <=> (present /\ SaysTrue(content))
           /\ outcome.kind = "result"
           /\ outcome.value.requiresImage = parsed.value.requiresImage
           /\ (present /\ content \in {"True", " true ", "TRUE "})
                 => parsed.value.requiresImage
           /\ (~present \/ content \in {"false", "", "true!"})
                 => ~parsed.value.requiresImage

\* C12 witness: upper-case content followed by a space has given true.
C12_Witness ==
    /\ ParseRan
    /\ parsed.kind = "return"
    /\ TagPresent(rawText, "requires_image")
    /\ InterTag(rawText, "requires_image") = "TRUE "
    /\ outcome.kind = "result"
    /\ outcome.value.requiresImage

-----------------------------------------------------------------------------
(* replaceVariables of prompts.ts *)

Digits == {"0", "1", "2", "3", "4", "5", "6", "7", "8", "9"}

\* The characters \w matches.
WordChars ==
    {UpperChars[i] : i \in 1..Len(UpperChars)}
        \cup {LowerChars[i] : i \in 1..Len(LowerChars)}
        \cup Digits \cup {"_"}

\* The number of characters \w+ takes from 0-based position j of t.
WordRun(t, j) ==
    LET stops == {k \in j..Len(t) : k = Len(t) \/ CharAt(t, k) \notin WordChars}
    IN  (CHOOSE k \in stops : \A l \in stops : k <= l) - j

\* Whether /\{\{(\w+)\}\}/ matches t at 0-based position i.
PlaceholderAt(t, i) ==
    /\ MatchesAt(t, "{{", i)
    /\ WordRun(t, i + 2) >= 1
    /\ MatchesAt(t, "}}", i + 2 + WordRun(t, i + 2))

\* The properties every object literal inherits from Object.prototype
\* whose names \w+ can match.
ObjectPrototypeKeys ==
    {"constructor", "toString", "toLocaleString", "valueOf",
     "hasOwnProperty", "isPrototypeOf", "propertyIsEnumerable", "__proto__"}

\* What String.prototype.replace makes of an inherited property returned by
\* the replacer: the source text of a built-in function, or the text of
\* Object.prototype itself.
InheritedText(key) ==
    IF key = "__proto__" THEN "[object Object]"
    ELSE IF key = "constructor" THEN "function Object() { [native code] }"
    ELSE "function " \o key \o "() { [native code] }"

\* variables[key] || "", as the replacement text: an own property, else a
\* property inherited from Object.prototype, else undefined.
PropertyOrEmpty(variables, key) ==
    IF key \in DOMAIN variables THEN variables[key]
    ELSE IF key \in ObjectPrototypeKeys THEN InheritedText(key)
    ELSE ""

RECURSIVE replaceFrom(_, _, _)
\* The global replace from 0-based position i on: the leftmost match is
\* replaced and the scan goes on behind it, in the template.
replaceFrom(t, i, variables) ==
    LET hits == {p \in i..(Len(t) - 1) : PlaceholderAt(t, p)}
    IN  IF hits = {} THEN SubSeq(t, i + 1, Len(t))
        ELSE LET p == CHOOSE q \in hits : \A r \in hits : q <= r
                 n == WordRun(t, p + 2)
                 key == SubSeq(t, p + 3, p + 2 + n)
             IN  SubSeq(t, i + 1, p) \o PropertyOrEmpty(variables, key)
                    \o replaceFrom(t, p + n + 4, variables)

\* A rendering that scans its own output once more.
replaceVariables_rescan(template, variables) ==
    replaceFrom(replaceFrom(template, 0, variables), 0, variables)

\* replaceVariables(template, variables)
replaceVariables(template, variables) == replaceFrom(template, 0, variables)

-----------------------------------------------------------------------------
(* Runs of the template engine alone *)

\* The tokens a template is assembled from.
TemplateTokens ==
    {"{{name}}", "{{x}}", "{{missing}}", "{{constructor}}", "{{", "}}",
     "Hello ", "!", "name"}

RenderTemplates ==
    {Concat(ts) :
        ts \in UNION {[1..k -> TemplateTokens] : k \in 0..MaxTemplateTokens}}

\* The variables mappings of the runs; <<>> is the empty object.
RenderVariables ==
    {<<>>,
     [name |-> "World"],
     [name |-> "{{x}}", x |-> "X"],
     [name |-> "", x |-> "{{name}}"],
     [x |-> "{{missing}}{{x}}", constructor |-> "own"]}

RenderInit ==
    /\ pc = "helper_called"
    /\ helperCall \in
          {[fn |-> "replaceVariables", template |-> t, variables |-> v] :
              t \in RenderTemplates, v \in RenderVariables}
    /\ helperResult = NoHelperResult
    /\ provider = "none"
    /\ flow = "none"
    /\ requests = 0
    /\ backend = NoBackend
    /\ rawText = ""
    /\ tag = ""
    /\ extracted = Null
    /\ parsed = NoParse
    /\ outcome = NoOutcome
    /\ handled = 0

\* One call replaceVariables(template, variables).
ReplaceVariables ==
    /\ pc = "helper_called"
    /\ helperCall.fn = "replaceVariables"
    /\ pc' = "helper_returned"
    /\ helperResult' =
          [kind |-> "return",
           value |-> replaceVariables(helperCall.template,
                                      helperCall.variables)]
    /\ UNCHANGED <<provider, flow, requests, backend, rawText, tag,
                   extracted, parsed, outcome, handled, helperCall>>

RenderNext == ReplaceVariables

SpecRender == RenderInit /\ [][RenderNext]_vars

-----------------------------------------------------------------------------
(* C13 *)

\* replaceVariables has returned.
Rendered == pc = "helper_returned" /\ helperCall.fn = "replaceVariables"

\* The placeholders of a template: <<i, j>> when the characters i..j of t
\* (1-based, both included) are "{{", a name of word characters, "}}".
PlaceholderSpans(t) ==
    {<<i, j>> \in (1..Len(t)) \X (1..Len(t)) :
        /\ j - i >= 4
        /\ SubSeq(t, i, i + 1) = "{{"
        /\ SubSeq(t, j - 1, j) = "}}"
        /\ \A k \in (i + 2)..(j - 2) : SubSeq(t, k, k) \in WordChars}

NameOf(t, span) == SubSeq(t, span[1] + 2, span[2] - 2)

RECURSIVE SinglePass(_, _, _, _)
\* The template from its from-th character on, with every placeholder among
\* spans replaced by the value of its name and everything else copied.
SinglePass(t, from, spans, values) ==
    IF spans = {} THEN SubSeq(t, from, Len(t))
    ELSE LET first == CHOOSE sp \in spans : \A o \in spans : sp[1] <= o[1]
         IN  SubSeq(t, from, first[1] - 1) \o values[NameOf(t, first)]
                \o SinglePass(t, first[2] + 1, spans \ {first}, values)

\* The text the claim gives each placeholder name of t: the variable of
\* that name, or the empty string when the mapping has no such key.
ClaimedValues(t, variables) ==
    [n \in {NameOf(t, sp) : sp \in PlaceholderSpans(t)} |->
        IF n \in DOMAIN variables THEN variables[n] ELSE ""]

\* C13: replaceVariables replaces every occurrence of a double-brace
\* placeholder by the text of the variable with that name, and every
\* placeholder whose name is no key of the mapping by the empty string; it
\* never raises an error; render("Hello {{name}}!", {name: "World"}) is
\* "Hello World!" and render("{{missing}}", {}) is "".
C13_RenderReplacesEveryPlaceholder ==
    Rendered
    => LET t == helperCall.template
           v == helperCall.variables
       IN  /\ helperResult.kind = "return"
           /\ helperResult.value
                 = SinglePass(t, 1, PlaceholderSpans(t), ClaimedValues(t, v))
           /\ (t = "Hello {{name}}!" /\ v = [name |-> "World"])
                 => helperResult.value = "Hello World!"
           /\ (t = "{{missing}}" /\ v = <<>>) => helperResult.value = ""

-----------------------------------------------------------------------------
(* C14 *)

\* The text replaceVariables puts for each placeholder name of t.
SubstitutedValues(t, variables) ==
    [n \in {NameOf(t, sp) : sp \in PlaceholderSpans(t)} |->
        PropertyOrEmpty(variables, n)]

\* C14: rendering is not recursive: the output is the template with each
\* of its own placeholders replaced once; a substituted value that holds
\* placeholder syntax, the name of another supplied variable included,
\* appears verbatim and is not expanded, whatever the order of the
\* placeholders in the template.
C14_RenderNotRecursive ==
    Rendered
    => LET t == helperCall.template
           v == helperCall.variables
       IN  /\ helperResult.value
                 = SinglePass(t, 1, PlaceholderSpans(t),
                              SubstitutedValues(t, v))
           /\ (t = "{{name}}{{x}}" /\ v = [name |-> "{{x}}", x |-> "X"])
                 => helperResult.value = "{{x}}X"
           /\ (t = "{{x}}{{name}}" /\ v = [name |-> "{{x}}", x |-> "X"])
                 => helperResult.value = "X{{x}}"

\* C14 witness: a template that names x before name has been rendered with
\* a value of name that holds the placeholder of x, and the output holds
\* that placeholder behind the value of x.
C14_Witness ==
    /\ Rendered
    /\ helperCall.template = "{{x}}!{{name}}"
    /\ helperCall.variables = [name |-> "{{x}}", x |-> "X"]
    /\ helperResult.value = "X!{{x}}"

-----------------------------------------------------------------------------
(* getMathTagsForGrade of prompts.ts *)

\* The grade argument: one of the six grades, or null, written 0 (`!grade`
\* holds of both).
Grades == 7..12
NoGrade == 0

\* getMathTagsByGrade of ../knowledge-tags: the tags listed for one grade.
\* The lists are an input (catalogue); the lists of grades 7-9 share no tag
\* with those of grades 10-12.
getMathTagsByGrade(catalogue, g) == catalogue[g]

\* A getMathTagsForGrade whose high-school grades accumulate from grade 7.
getMathTagsForGrade_fromSeven(grade, catalogue) ==
    IF grade = NoGrade
    THEN getMathTagsByGrade(catalogue, 7) \o getMathTagsByGrade(catalogue, 8)
            \o getMathTagsByGrade(catalogue, 9)
            \o getMathTagsByGrade(catalogue, 10)
            \o getMathTagsByGrade(catalogue, 11)
            \o getMathTagsByGrade(catalogue, 12)
    ELSE (IF grade >= 7 THEN getMathTagsByGrade(catalogue, 7) ELSE <<>>)
            \o (IF grade >= 8 THEN getMathTagsByGrade(catalogue, 8) ELSE <<>>)
            \o (IF grade >= 9 THEN getMathTagsByGrade(catalogue, 9) ELSE <<>>)
            \o (IF grade >= 10 THEN getMathTagsByGrade(catalogue, 10)
                ELSE <<>>)
            \o (IF grade >= 11 THEN getMathTagsByGrade(catalogue, 11)
                ELSE <<>>)
            \o (IF grade >= 12 THEN getMathTagsByGrade(catalogue, 12)
                ELSE <<>>)

\* getMathTagsForGrade(grade)
getMathTagsForGrade(grade, catalogue) ==
    IF grade = NoGrade
    THEN getMathTagsByGrade(catalogue, 7) \o getMathTagsByGrade(catalogue, 8)
            \o getMathTagsByGrade(catalogue, 9)
            \o getMathTagsByGrade(catalogue, 10)
            \o getMathTagsByGrade(catalogue, 11)
            \o getMathTagsByGrade(catalogue, 12)
    ELSE IF grade >= 7 /\ grade <= 9
    THEN (IF grade >= 7 THEN getMathTagsByGrade(catalogue, 7) ELSE <<>>)
            \o (IF grade >= 8 THEN getMathTagsByGrade(catalogue, 8) ELSE <<>>)
            \o (IF grade >= 9 THEN getMathTagsByGrade(catalogue, 9) ELSE <<>>)
    ELSE (IF grade >= 10 THEN getMathTagsByGrade(catalogue, 10) ELSE <<>>)
            \o (IF grade >= 11 THEN getMathTagsByGrade(catalogue, 11)
                ELSE <<>>)
            \o (IF grade >= 12 THEN getMathTagsByGrade(catalogue, 12)
                ELSE <<>>)

\* The tag lists a grade can have in a catalogue: none, a tag of its own,
\* or a tag of its own and one it shares with the grades of its band.
GradeLists(g) ==
    LET own == "tag" \o ToString(g)
        shared == IF g <= 9 THEN "middle" ELSE "high"
    IN  {<<>>, <<own>>, <<own, shared>>}

Catalogues == {c \in [Grades -> UNION {GradeLists(g) : g \in Grades}] :
                  \A g \in Grades : c[g] \in GradeLists(g)}

TagsInit ==
    /\ pc = "helper_called"
    /\ helperCall \in
          {[fn |-> "getMathTagsForGrade", grade |-> g, catalogue |-> c] :
              g \in Grades \cup {NoGrade}, c \in Catalogues}
    /\ helperResult = NoHelperResult
    /\ provider = "none"
    /\ flow = "none"
    /\ requests = 0
    /\ backend = NoBackend
    /\ rawText = ""
    /\ tag = ""
    /\ extracted = Null
    /\ parsed = NoParse
    /\ outcome = NoOutcome
    /\ handled = 0

\* One call getMathTagsForGrade(grade).
GetMathTagsForGrade ==
    /\ pc = "helper_called"
    /\ helperCall.fn = "getMathTagsForGrade"
    /\ pc' = "helper_returned"
    /\ helperResult' =
          [kind |-> "return",
           value |-> getMathTagsForGrade(helperCall.grade,
                                         helperCall.catalogue)]
    /\ UNCHANGED <<provider, flow, requests, backend, rawText, tag,
                   extracted, parsed, outcome, handled, helperCall>>

TagsNext == GetMathTagsForGrade

SpecTags == TagsInit /\ [][TagsNext]_vars

-----------------------------------------------------------------------------
(* C15 *)

Range(seq) == {seq[i] : i \in 1..Len(seq)}

MiddleSchool == {7, 8, 9}
HighSchool == {10, 11, 12}
BandOf(g) == IF g \in MiddleSchool THEN MiddleSchool ELSE HighSchool

\* The tags of the per-grade lists of the grades in gs.
PerGradeTags(catalogue, gs) == UNION {Range(catalogue[g]) : g \in gs}

\* C15: the tag set for a grade equals the union of the per-grade tags of
\* that grade and every lower grade of its band, and holds no tag of the
\* other band; tags(9) contains tags(8) contains tags(7), tags(12) contains
\* tags(11) contains tags(10), the middle-school and high-school sets are
\* disjoint, and tags(null) is the union of all six per-grade levels.
C15_MathTagsCumulative ==
    (pc = "helper_returned" /\ helperCall.fn = "getMathTagsForGrade")
    => LET c == helperCall.catalogue
           g == helperCall.grade
           tags == Range(helperResult.value)
           of(x) == Range(getMathTagsForGrade(x, c))
       IN  /\ g = NoGrade => tags = PerGradeTags(c, Grades)
           /\ g # NoGrade =>
                 /\ tags = PerGradeTags(c, {k \in BandOf(g) : k <= g})
                 /\ tags \cap PerGradeTags(c, Grades \ BandOf(g)) = {}
           /\ of(7) \subseteq of(8) /\ of(8) \subseteq of(9)
           /\ of(10) \subseteq of(11) /\ of(11) \subseteq of(12)
           /\ of(9) \cap of(12) = {}
           /\ of(NoGrade) = PerGradeTags(c, Grades)

\* C15 witness: grade 11 has been answered with the tags of grades 10 and
\* 11, in a catalogue where every grade lists tags.
C15_Witness ==
    /\ pc = "helper_returned"
    /\ helperCall.fn = "getMathTagsForGrade"
    /\ helperCall.grade = 11
    /\ \A g \in Grades : Len(helperCall.catalogue[g]) = 2
    /\ Range(helperResult.value) = {"tag10", "tag11", "high"}

-----------------------------------------------------------------------------
(* The default prompt templates of prompts.ts *)

\* DEFAULT_ANALYZE_TEMPLATE
DEFAULT_ANALYZE_TEMPLATE ==
    "[ROLE AND CORE TASK (ROLE AND CORE TASK)]\n"
        \o "You are an exam analysis expert (Interdisciplinary Exam Analysis Expert). Analyze the image of the question.\n"
        \o "\n"
        \o "{{language_instruction}}\n"
        \o "\n"
        \o "[OUTPUT REQUIREMENTS (OUTPUT REQUIREMENTS)]\n"
        \o "Your output **must follow the tag format below**. **No** JSON or Markdown code blocks. **Never** escape the backslashes of LaTeX twice (\"\\frac\" is wrong, it must be \"\frac\").\n"
        \o "\n"
        \o "Output exactly this structure:\n"
        \o "\n"
        \o "<question_text>\n"
        \o "The full text of the question, in Markdown, formulas in LaTeX (inline $...$, block $$...$$).\n"
        \o "</question_text>\n"
        \o "\n"
        \o "<answer_text>\n"
        \o "The correct answer, in Markdown and LaTeX.\n"
        \o "</answer_text>\n"
        \o "\n"
        \o "<analysis>\n"
        \o "The detailed solution, step by step.\n"
        \o "* In Simplified Chinese.\n"
        \o "* **Use standard LaTeX** (such as $\\frac{1}{2}$), **no** JSON escaping (not \\\\frac).\n"
        \o "</analysis>\n"
        \o "\n"
        \o "<subject>\n"
        \o "The subject, one of: \"shuxue\", \"wuli\", \"huaxue\", \"shengwu\", \"yingyu\", \"yuwen\", \"lishi\", \"dili\", \"zhengzhi\", \"qita\".\n"
        \o "</subject>\n"
        \o "\n"
        \o "<knowledge_points>\n"
        \o "The knowledge points, separated by commas, for example: point1, point2, point3\n"
        \o "</knowledge_points>\n"
        \o "\n"
        \o "<requires_image>\n"
        \o "Whether the question can only be answered with its image: true if so, false otherwise.\n"
        \o "</requires_image>\n"
        \o "\n"
        \o "[KNOWLEDGE POINT LIST]\n"
        \o "{{knowledge_points_list}}\n"
        \o "\n"
        \o "[TAG RULES (TAG RULES)]\n"
        \o "- Tags must match what the question tests.\n"
        \o "- At most 5 tags per question.\n"
        \o "\n"
        \o "[!!! CRITICAL RULES (CRITICAL RULES) !!!]\n"
        \o "1. **Strict format**: exactly the 6 XML tags above, no opening or closing remarks.\n"
        \o "2. **Plain text**: **do not escape backslashes**.\n"
        \o "3. **Complete**: list sub-questions in question_text.\n"
        \o "4. **No images**: no image links, no markdown image syntax.\n"
        \o "\n"
        \o "{{provider_hints}}"

\* A similar-question template that asks for the image flag as well.
DEFAULT_SIMILAR_TEMPLATE_sixTags ==
    "Create a NEW practice problem.\n"
        \o "Original Question: \"{{original_question}}\"\n"
        \o "Knowledge Points: {{knowledge_points}}\n"
        \o "<question_text>\nThe new question.\n</question_text>\n"
        \o "<answer_text>\nIts answer.\n</answer_text>\n"
        \o "<analysis>\nIts solution.\n</analysis>\n"
        \o "<subject>\nIts subject.\n</subject>\n"
        \o "<knowledge_points>\nIts knowledge points.\n</knowledge_points>\n"
        \o "<requires_image>\ntrue or false\n</requires_image>\n"
        \o "{{provider_hints}}"

\* DEFAULT_SIMILAR_TEMPLATE
DEFAULT_SIMILAR_TEMPLATE ==
    "You are an expert AI tutor creating practice problems for middle school students.\n"
        \o "Create a NEW practice problem based on the following original question and knowledge points.\n"
        \o "\n"
        \o "DIFFICULTY LEVEL: {{difficulty_level}}\n"
        \o "{{difficulty_instruction}}\n"
        \o "\n"
        \o "{{language_instruction}}\n"
        \o "\n"
        \o "Original Question: \"{{original_question}}\"\n"
        \o "Knowledge Points: {{knowledge_points}}\n"
        \o "\n"
        \o "[OUTPUT REQUIREMENTS (OUTPUT REQUIREMENTS)]\n"
        \o "Your output **must follow the tag format below**. **No** JSON or Markdown code blocks. **Never** return '''json ... '''.\n"
        \o "\n"
        \o "Output exactly this structure (no other text):\n"
        \o "\n"
        \o "<question_text>\n"
        \o "The text of the new question, with its options if it is multiple choice.\n"
        \o "</question_text>\n"
        \o "\n"
        \o "<answer_text>\n"
        \o "The correct answer of the new question.\n"
        \o "</answer_text>\n"
        \o "\n"
        \o "<analysis>\n"
        \o "The detailed solution of the new question.\n"
        \o "* In Simplified Chinese.\n"
        \o "* **Use standard LaTeX** (such as $\frac{1}{2}$), **no** JSON escaping.\n"
        \o "</analysis>\n"
        \o "\n"
        \o "<subject>\n"
        \o "The subject (usually that of the original question).\n"
        \o "</subject>\n"
        \o "\n"
        \o "<knowledge_points>\n"
        \o "The knowledge points it belongs to, separated by commas.\n"
        \o "</knowledge_points>\n"
        \o "\n"
        \o "[!!! CRITICAL RULES (CRITICAL RULES) !!!]\n"
        \o "1. **Strict format**: exactly the 5 XML tags above.\n"
        \o "2. **Plain text**: **do not escape backslashes**.\n"
        \o "\n"
        \o "{{provider_hints}}"

\* DEFAULT_REANSWER_TEMPLATE
DEFAULT_REANSWER_TEMPLATE ==
    "[ROLE AND CORE TASK (ROLE AND CORE TASK)]\n"
        \o "You are an experienced teacher. The user provides a **corrected question text**; give its correct answer and a detailed solution.\n"
        \o "\n"
        \o "{{language_instruction}}\n"
        \o "\n"
        \o "[QUESTION (QUESTION)]\n"
        \o "{{question_text}}\n"
        \o "\n"
        \o "[SUBJECT HINT (SUBJECT HINT)]\n"
        \o "{{subject_hint}}\n"
        \o "\n"
        \o "[OUTPUT REQUIREMENTS (OUTPUT REQUIREMENTS)]\n"
        \o "Your output **must follow the tag format below**. **No** JSON or Markdown code blocks.\n"
        \o "\n"
        \o "Output exactly this structure (no other text):\n"
        \o "\n"
        \o "<answer_text>\n"
        \o "The correct answer, in Markdown and LaTeX.\n"
        \o "</answer_text>\n"
        \o "\n"
        \o "<analysis>\n"
        \o "The detailed solution, step by step.\n"
        \o "* In Simplified Chinese.\n"
        \o "* **Use standard LaTeX** (such as $\\frac{1}{2}$), **no** JSON escaping.\n"
        \o "* Clear and complete, fit for a student.\n"
        \o "</analysis>\n"
        \o "\n"
        \o "<knowledge_points>\n"
        \o "The knowledge points, separated by commas, for example: point1, point2, point3\n"
        \o "</knowledge_points>\n"
        \o "\n"
        \o "[!!! CRITICAL RULES (CRITICAL RULES) !!!]\n"
        \o "1. **Strict format**: exactly the 3 XML tags above, nothing else.\n"
        \o "2. **Plain text**: **do not escape backslashes**.\n"
        \o "3. **Question unchanged**: do not change or repeat the question, give the answer and the solution only.\n"
        \o "\n"
        \o "{{provider_hints}}"

-----------------------------------------------------------------------------
(* The prompt builders of prompts.ts *)

\* String.prototype.toUpperCase on one character and on a string.
UpperChar(c) ==
    IF \E i \in 1..26 : LowerChars[i] = c
    THEN UpperChars[CHOOSE i \in 1..26 : LowerChars[i] = c]
    ELSE c

RECURSIVE toUpperCase(_)
toUpperCase(s) ==
    IF s = "" THEN ""
    ELSE UpperChar(SubSeq(s, 1, 1)) \o toUpperCase(SubSeq(s, 2, Len(s)))

RECURSIVE replaceAll(_, _, _)
\* s.replace(/c/g, to) for a pattern c of one character.
replaceAll(s, c, to) ==
    IF s = "" THEN ""
    ELSE (IF SubSeq(s, 1, 1) = c THEN to ELSE SubSeq(s, 1, 1))
            \o replaceAll(SubSeq(s, 2, Len(s)), c, to)

RECURSIVE join(_, _)
\* Array.prototype.join
join(items, separator) ==
    IF Len(items) = 0 THEN ""
    ELSE IF Len(items) = 1 THEN items[1]
    ELSE items[1] \o separator \o join(Tail(items), separator)

\* tags.map(tag => `"${tag}"`)
Quoted(items) == [i \in 1..Len(items) |-> "\"" \o items[i] \o "\""]

\* PromptOptions, as the builders read it: each field absent or a string.
\* An absent options argument is the record of two absent fields.
NoOptions == [customTemplate |-> Null, providerHints |-> Null]

\* A builder that ignores options.customTemplate.
templateInUse_alwaysDefault(options, defaultTemplate) == defaultTemplate

\* options?.customTemplate || DEFAULT_..._TEMPLATE
templateInUse(options, defaultTemplate) ==
    IF Truthy(options.customTemplate) THEN options.customTemplate.str
    ELSE defaultTemplate

\* options?.providerHints || ''
providerHintsOf(options) == OrEmpty(options.providerHints)

\* The language instruction of generateAnalyzePrompt.
analyzeLangInstruction(language) ==
    IF language = "zh"
    THEN "IMPORTANT: For the 'analysis' field, use Simplified "
         \o "Chinese. For 'questionText' and 'answerText', YOU MUST USE "
         \o "THE SAME LANGUAGE AS THE ORIGINAL QUESTION. If the original "
         \o "question is in Chinese, the new question MUST be in "
         \o "Chinese. If the original is in English, keep it in English. "
         \o "If the original question is in English, the new "
         \o "'questionText' and 'answerText' MUST be in English, but the "
         \o "'analysis' MUST be in Simplified Chinese (to help the "
         \o "student understand). "
    ELSE "Please ensure all text fields are in English."

\* The tag list generateAnalyzePrompt shows for a subject.
tagsSection(subject, mathTagsString) ==
    IF subject = Str("shuxue")
    THEN "**Math Tags (Math Tags):**\n"
         \o "Use the **exact tag names** of the curriculum, one of:\n"
         \o mathTagsString \o "\n"
         \o "\n"
         \o "**Important**:\n"
         \o "- Choose tags that match the list exactly\n"
         \o "- At most 5 tags per question"
    ELSE IF subject = Str("wuli")
    THEN "**Physics Tags (Physics Tags):**\n"
         \o "\"mechanics\", \"electricity\", \"optics\", \"heat\""
    ELSE IF subject = Str("huaxue")
    THEN "**Chemistry Tags (Chemistry Tags):**\n"
         \o "\"equations\", \"redox\", \"acids and bases\""
    ELSE IF subject = Str("yingyu")
    THEN "**English Tags (English Tags):**\n"
         \o "\"grammar\", \"vocabulary\", \"reading\""
    ELSE "**Math Tags (Math Tags):**\n"
         \o mathTagsString \o "\n"
         \o "\n"
         \o "**Physics Tags (Physics Tags):**\n"
         \o "\"mechanics\", \"electricity\", \"optics\", \"heat\"\n"
         \o "\n"
         \o "**Chemistry Tags (Chemistry Tags):**\n"
         \o "\"equations\", \"redox\", \"acids and bases\"\n"
         \o "\n"
         \o "**English Tags (English Tags):**\n"
         \o "\"grammar\", \"vocabulary\", \"reading\""

\* generateAnalyzePrompt(language, grade, subject, options); grade is
\* NoGrade when it is absent, null or 0, the values grade || null makes
\* null.
generateAnalyzePrompt(language, grade, subject, options, catalogue) ==
    LET mathTags == getMathTagsForGrade(grade, catalogue)
        mathTagsString == join(Quoted(mathTags), ", ")
        template == templateInUse(options, DEFAULT_ANALYZE_TEMPLATE)
    IN  trim(replaceVariables(template,
            [language_instruction |-> analyzeLangInstruction(language),
             knowledge_points_list |-> tagsSection(subject, mathTagsString),
             provider_hints |-> providerHintsOf(options)]))

\* The language instruction of generateSimilarQuestionPrompt.
similarLangInstruction(language) ==
    IF language = "zh"
    THEN "IMPORTANT: Provide the output based on the 'Original "
         \o "Question' language. If the original question is in English, "
         \o "the new 'questionText' and 'answerText' MUST be in English, "
         \o "but the 'analysis' MUST be in Simplified Chinese (to help "
         \o "the student understand). If the original is in Chinese, "
         \o "everything MUST be in Simplified Chinese."
    ELSE "Please ensure the generated question is in English."

Difficulties == {"easy", "medium", "hard", "harder"}

difficultyInstruction(difficulty) ==
    IF difficulty = "easy"
    THEN "Make the new question EASIER than the original. Use simpler "
         \o "numbers and more direct concepts."
    ELSE IF difficulty = "medium"
    THEN "Keep the difficulty SIMILAR to the original question."
    ELSE IF difficulty = "hard"
    THEN "Make the new question HARDER than the original. Combine multiple "
         \o "concepts or use more complex numbers."
    ELSE "Make the new question MUCH HARDER (Challenge Level). Require "
         \o "deeper understanding and multi-step reasoning."

\* originalQuestion.replace(/"/g, '\\"').replace(/\n/g, '\\n')
escapeOriginalQuestion(originalQuestion) ==
    replaceAll(replaceAll(originalQuestion, "\"", "\\\""), "\n", "\\n")

\* generateSimilarQuestionPrompt(language, originalQuestion,
\*                               knowledgePoints, difficulty, options)
generateSimilarQuestionPrompt(language, originalQuestion, knowledgePoints, difficulty, options) ==
    LET template == templateInUse(options, DEFAULT_SIMILAR_TEMPLATE)
    IN  trim(replaceVariables(template,
            [difficulty_level |-> toUpperCase(difficulty),
             difficulty_instruction |-> difficultyInstruction(difficulty),
             language_instruction |-> similarLangInstruction(language),
             original_question |-> escapeOriginalQuestion(originalQuestion),
             knowledge_points |-> join(knowledgePoints, ", "),
             provider_hints |-> providerHintsOf(options)]))

\* The language instruction of generateReanswerPrompt.
reanswerLangInstruction(language) ==
    IF language = "zh"
    THEN "IMPORTANT: The analysis must be in Simplified Chinese. If the "
         \o "question is in English, keep the answer in English."
    ELSE "Please ensure all text fields are in English."

\* subject ? `...${subject}` : "..."
subjectHint(subject) ==
    IF Truthy(subject) THEN "Subject of this question: " \o subject.str
    ELSE "Judge the subject from the question."

\* generateReanswerPrompt(language, questionText, subject, options)
generateReanswerPrompt(language, questionText, subject, options) ==
    LET template == templateInUse(options, DEFAULT_REANSWER_TEMPLATE)
    IN  trim(replaceVariables(template,
            [language_instruction |-> reanswerLangInstruction(language),
             question_text |-> questionText,
             subject_hint |-> subjectHint(subject),
             provider_hints |-> providerHintsOf(options)]))

-----------------------------------------------------------------------------
(* Runs of the prompt builders alone *)

\* The math-tag catalogue of the builder runs: every grade has a tag of its
\* own and one it shares with its band.
PromptCatalogue ==
    [g \in Grades |->
        <<"tag" \o ToString(g), IF g <= 9 THEN "middle" ELSE "high">>]

\* The override templates of the runs: none, the empty string, one without
\* placeholders, one with the hint placeholder inside, one that quotes the
\* question as the default similar template does.
CustomTemplates ==
    {Null,
     Str(""),
     Str("Solve it. Reply in <answer_text> only."),
     Str("Custom rules.\n{{provider_hints}}\nEnd of rules."),
     Str("Q: \"{{original_question}}\" {{question_text}}\n{{provider_hints}}")}

\* The provider hints of the runs: none, a plain one, one with white space
\* around it, one that is itself a placeholder.
ProviderHints ==
    {Null,
     Str("Answer briefly."),
     Str("  Use plain text.\n"),
     Str("{{language_instruction}}")}

PromptOptionsValues ==
    {[customTemplate |-> t, providerHints |-> h] :
        t \in CustomTemplates, h \in ProviderHints}

Languages == {"zh", "en"}

\* The original questions of the runs: plain, with quotes, with a newline,
\* with an escaped quote, ending in a backslash, with template and tag
\* syntax.
OriginalQuestions ==
    {"1 + 1 = ?",
     "Say \"hi\" twice.",
     "Line one\nLine two",
     "a \\\" b",
     "C:\\",
     "{{provider_hints}} <requires_image>"}

KnowledgePointLists == {<<>>, <<"addition", "integers">>}

QuestionTexts == {"1 + 1 = ?", "{{provider_hints}}", "<subject>x</subject>"}

AnalyzeSubjects ==
    {Null, Str("shuxue"), Str("wuli"), Str("huaxue"), Str("yingyu"),
     Str("lishi")}

ReanswerSubjects == {Null, Str(""), Str("shuxue")}

PromptGrades == {NoGrade, 8, 12}

AnalyzeCalls ==
    {[fn |-> "generateAnalyzePrompt", language |-> l, grade |-> g,
      subject |-> s, options |-> o] :
        l \in Languages, g \in PromptGrades, s \in AnalyzeSubjects,
        o \in PromptOptionsValues}

SimilarCalls ==
    {[fn |-> "generateSimilarQuestionPrompt", language |-> l,
      originalQuestion |-> q, knowledgePoints |-> k, difficulty |-> d,
      options |-> o] :
        l \in Languages, q \in OriginalQuestions,
        k \in KnowledgePointLists, d \in Difficulties,
        o \in PromptOptionsValues}

ReanswerCalls ==
    {[fn |-> "generateReanswerPrompt", language |-> l, questionText |-> q,
      subject |-> s, options |-> o] :
        l \in Languages, q \in QuestionTexts, s \in ReanswerSubjects,
        o \in PromptOptionsValues}

PromptInit ==
    /\ pc = "helper_called"
    /\ helperCall \in AnalyzeCalls \cup SimilarCalls \cup ReanswerCalls
    /\ helperResult = NoHelperResult
    /\ provider = "none"
    /\ flow = "none"
    /\ requests = 0
    /\ backend = NoBackend
    /\ rawText = ""
    /\ tag = ""
    /\ extracted = Null
    /\ parsed = NoParse
    /\ outcome = NoOutcome
    /\ handled = 0

\* One call generateAnalyzePrompt(language, grade, subject, options).
GenerateAnalyzePrompt ==
    /\ pc = "helper_called"
    /\ helperCall.fn = "generateAnalyzePrompt"
    /\ pc' = "helper_returned"
    /\ helperResult' =
          [kind |-> "return",
           value |-> generateAnalyzePrompt(helperCall.language,
                        helperCall.grade, helperCall.subject,
                        helperCall.options, PromptCatalogue)]
    /\ UNCHANGED <<provider, flow, requests, backend, rawText, tag,
                   extracted, parsed, outcome, handled, helperCall>>

\* One call generateSimilarQuestionPrompt(language, originalQuestion,
\* knowledgePoints, difficulty, options).
GenerateSimilarQuestionPrompt ==
    /\ pc = "helper_called"
    /\ helperCall.fn = "generateSimilarQuestionPrompt"
    /\ pc' = "helper_returned"
    /\ helperResult' =
          [kind |-> "return",
           value |-> generateSimilarQuestionPrompt(helperCall.language,
                        helperCall.originalQuestion,
                        helperCall.knowledgePoints, helperCall.difficulty,
                        helperCall.options)]
    /\ UNCHANGED <<provider, flow, requests, backend, rawText, tag,
                   extracted, parsed, outcome, handled, helperCall>>

\* One call generateReanswerPrompt(language, questionText, subject, options).
GenerateReanswerPrompt ==
    /\ pc = "helper_called"
    /\ helperCall.fn = "generateReanswerPrompt"
    /\ pc' = "helper_returned"
    /\ helperResult' =
          [kind |-> "return",
           value |-> generateReanswerPrompt(helperCall.language,
                        helperCall.questionText, helperCall.subject,
                        helperCall.options)]
    /\ UNCHANGED <<provider, flow, requests, backend, rawText, tag,
                   extracted, parsed, outcome, handled, helperCall>>

PromptNext ==
    \/ GenerateAnalyzePrompt
    \/ GenerateSimilarQuestionPrompt
    \/ GenerateReanswerPrompt

SpecPrompt == PromptInit /\ [][PromptNext]_vars

-----------------------------------------------------------------------------
(* C16 *)

\* A prompt builder has returned.
PromptBuilt ==
    /\ pc = "helper_returned"
    /\ helperCall.fn \in {"generateAnalyzePrompt",
                          "generateSimilarQuestionPrompt",
                          "generateReanswerPrompt"}

\* The texts the caller passes into the call.
CallerTexts ==
    {OrEmpty(helperCall.options.providerHints)}
        \cup (IF helperCall.fn = "generateSimilarQuestionPrompt"
              THEN {helperCall.originalQuestion} ELSE {})
        \cup (IF helperCall.fn = "generateReanswerPrompt"
              THEN {helperCall.questionText, OrEmpty(helperCall.subject)}
              ELSE {})

\* The call has no usable override, so the default template is rendered.
DefaultInUse == ~Truthy(helperCall.options.customTemplate)

\* The names of the <name> tags written in a text.
TagNamesIn(text) ==
    {SubSeq(text, i + 2, i + 1 + WordRun(text, i + 1)) :
        i \in {j \in 0..(Len(text) - 1) :
                  /\ CharAt(text, j) = "<"
                  /\ WordRun(text, j + 1) >= 1
                  /\ CharAt(text, j + 1 + WordRun(text, j + 1)) = ">"}}

\* The tags a prompt requests: those the extractor finds, opened and
\* closed, in a reply that copies the structure the prompt shows.
RequestedTags(prompt) ==
    {name \in TagNamesIn(prompt) : ~extractTag(prompt, name).isNull}

\* The tags parseResponse extracts and those the reanswer parse extracts.
ParseResponseTags ==
    {"question_text", "answer_text", "analysis", "subject",
     "knowledge_points", "requires_image"}

ReanswerParseTags == {"answer_text", "analysis", "knowledge_points"}

\* C16 as stated: the default analyze and similar-question prompts each
\* request exactly the six tags parseResponse extracts, and the default
\* reanswer prompt exactly the three the reanswer parse extracts.
C16_Original ==
    (PromptBuilt /\ DefaultInUse /\ \A t \in CallerTexts : ~includes(t, "<"))
        => RequestedTags(helperResult.value) =
              (IF helperCall.fn = "generateReanswerPrompt"
               THEN ReanswerParseTags ELSE ParseResponseTags)

\* C16: a prompt built from a default template, from caller texts without
\* tag syntax, requests exactly the six tags parseResponse extracts when it
\* is the analyze prompt, exactly the three tags the reanswer parse
\* extracts when it is the reanswer prompt, and exactly five when it is the
\* similar-question prompt: the six without requires_image.
C16_TemplateTagsAndExtractor ==
    (PromptBuilt /\ DefaultInUse /\ \A t \in CallerTexts : ~includes(t, "<"))
        => RequestedTags(helperResult.value) =
              (IF helperCall.fn = "generateReanswerPrompt"
               THEN ReanswerParseTags
               ELSE IF helperCall.fn = "generateSimilarQuestionPrompt"
               THEN ParseResponseTags \ {"requires_image"}
               ELSE ParseResponseTags)

\* C16 witness: a similar-question prompt built from the default template
\* that requests five tags and not requires_image.
C16_Witness ==
    /\ PromptBuilt /\ DefaultInUse
    /\ helperCall.fn = "generateSimilarQuestionPrompt"
    /\ \A t \in CallerTexts : ~includes(t, "<")
    /\ Cardinality(RequestedTags(helperResult.value)) = 5
    /\ "requires_image" \notin RequestedTags(helperResult.value)
    /\ ~includes(helperResult.value, "requires_image")

-----------------------------------------------------------------------------
(* C17 *)

\* A heading every default template has and no override of the runs has.
DefaultMarker == "(CRITICAL RULES)"

\* s without the white space at its end.
TrimEnd(s) ==
    LET n == Len(s)
        blank(i) == CharAt(s, i) \in WhiteSpace
    IN  IF \A i \in 0..(n - 1) : blank(i) THEN ""
        ELSE LET back == CHOOSE k \in 0..(n - 1) :
                              /\ ~blank(n - 1 - k)
                              /\ \A j \in (n - k)..(n - 1) : blank(j)
             IN  SubSeq(s, 1, n - back)

EndsWith(s, suffix) ==
    /\ Len(suffix) <= Len(s)
    /\ SubSeq(s, Len(s) - Len(suffix) + 1, Len(s)) = suffix

\* The hint text of the call, "" when none is supplied.
HintOfCall == OrEmpty(helperCall.options.providerHints)

\* C17 as stated: when an override template is supplied nothing of the
\* default template is in the prompt, and when a provider hint is supplied
\* the prompt ends with the hint, character for character, whichever
\* template is in use.
C17_Original ==
    PromptBuilt =>
        /\ ~helperCall.options.customTemplate.isNull
              => ~includes(helperResult.value, DefaultMarker)
        /\ ~helperCall.options.providerHints.isNull
              => EndsWith(helperResult.value,
                          helperCall.options.providerHints.str)

\* C17: a non-empty override template replaces the default entirely: the
\* prompt has nothing of the default, and an override without placeholders
\* is the prompt, trimmed.  An absent or empty override leaves the default
\* in use.  The provider hint is put where the template in use has the
\* {{provider_hints}} placeholder, unchanged and not scanned for
\* placeholders, and the prompt as a whole is trimmed: under a default
\* template, which ends with the placeholder, the prompt ends with the hint
\* less the white space at the hint's end; under an override with the
\* placeholder the prompt contains that text; under an override without
\* the placeholder the hint is not in the prompt.
C17_OverrideAndHint ==
    PromptBuilt =>
        LET prompt == helperResult.value
            override == helperCall.options.customTemplate
            hint == HintOfCall
        IN  /\ Truthy(override)
                  => /\ ~includes(prompt, DefaultMarker)
                     /\ ~includes(override.str, "{{")
                           => prompt = trim(override.str)
                     /\ (hint # "" /\ includes(override.str, "{{provider_hints}}"))
                           => includes(prompt, TrimEnd(hint))
                     /\ (hint # "" /\ ~includes(override.str, "{{provider_hints}}"))
                           => ~includes(prompt, TrimEnd(hint))
            /\ ~Truthy(override)
                  => /\ includes(prompt, DefaultMarker)
                     /\ hint # "" => EndsWith(prompt, "\n\n" \o TrimEnd(hint))

\* C17 witness: a hint was supplied with an override that has no
\* placeholder for it, and the prompt is the override without the hint.
C17_Witness ==
    /\ PromptBuilt
    /\ Truthy(helperCall.options.customTemplate)
    /\ ~includes(helperCall.options.customTemplate.str, "{{provider_hints}}")
    /\ HintOfCall = "Answer briefly."
    /\ helperResult.value = helperCall.options.customTemplate.str
    /\ ~includes(helperResult.value, "Answer briefly.")

-----------------------------------------------------------------------------
(* C18 *)

\* The text the similar-question prompt carries between the opening quote
\* of its Original Question line and the quote in front of the Knowledge
\* Points line.
SlotOpening == "Original Question: \""
SlotClosing == "\"\nKnowledge Points: "

QuotedSlot(prompt) ==
    substring(prompt, indexOf(prompt, SlotOpening) + Len(SlotOpening),
              indexOf(prompt, SlotClosing))

\* The number of backslashes directly in front of 0-based position i of s.
BackslashesBefore(s, i) ==
    LET runs == {k \in 0..i : \A j \in (i - k)..(i - 1) : CharAt(s, j) = "\\"}
    IN  Max(runs)

Odd(n) == n % 2 = 1

\* C18: in every similar-question prompt built from the default template,
\* the text interpolated into the quoted Original Question slot has no raw
\* newline and no double quote that is not preceded by an odd number of
\* backslashes, and the template's own closing quote is not escaped by it.
C18_QuotedSlotNeverBroken ==
    (PromptBuilt /\ DefaultInUse
        /\ helperCall.fn = "generateSimilarQuestionPrompt")
        => LET slot == QuotedSlot(helperResult.value)
           IN  /\ slot = escapeOriginalQuestion(helperCall.originalQuestion)
               /\ ~includes(slot, "\n")
               /\ \A i \in Matches(slot, "\"") :
                      Odd(BackslashesBefore(slot, i))
               /\ ~Odd(BackslashesBefore(slot, Len(slot)))

-----------------------------------------------------------------------------
(* C19 *)

\* The invocation is over and it failed: the awaited call threw, the reply
\* text was refused, or the parse threw.
InvocationFailed == pc = "done" /\ parsed.kind # "return"

\* At every moment of an invocation: at most one request has been issued,
\* exactly one once the method awaits, and when the invocation is over the
\* caller has a result and handleError was never called, or the caller has
\* an error and handleError was called exactly once.
OneRequestOneClassification ==
    /\ requests = (IF pc = "idle" THEN 0 ELSE 1)
    /\ pc = "done" =>
          /\ outcome.kind \in {"result", "error"}
          /\ outcome.kind = "error" <=> InvocationFailed
          /\ handled = (IF InvocationFailed THEN 1 ELSE 0)
    /\ pc # "done" => handled = 0 /\ outcome = NoOutcome

\* C19: each invocation of analyzeImage, generateSimilarQuestion or
\* reanswerQuestion issues exactly one request and then terminates with a
\* result or an error; after a backend or parse failure no second request
\* is issued, and the failure is classified exactly once.
C19_SingleRequestThenTerminates ==
    /\ []OneRequestOneClassification
    /\ (pc = "awaiting") ~> (pc = "done")
    /\ [][pc = "done" => UNCHANGED vars]_vars

\* C19 witness: an invocation that ended in a parse failure, with one
\* request issued and one classification made.
C19_Witness ==
    /\ pc = "done"
    /\ parsed.kind = "throw"
    /\ outcome.kind = "error"
    /\ requests = 1
    /\ handled = 1

-----------------------------------------------------------------------------
(* C20 *)

\* The value thrown inside the try block of a failed invocation: by the
\* awaited call, by the checks of the reply, or by the parse.
ThrownInTry ==
    LET reply == ReplyText(provider, flow, backend)
    IN  IF reply.kind = "throw" THEN reply.error ELSE parsed.error

\* C20: handleError never returns: whatever was thrown inside the try
\* block, Error object or not, the caller of any of the three flows of
\* either provider receives a new Error whose message is exactly one of
\* AI_CONNECTION_FAILED, AI_RESPONSE_ERROR, AI_AUTH_ERROR and
\* AI_UNKNOWN_ERROR, chosen by testing the connection substrings first,
\* then the response substrings, then the auth substrings; the thrown
\* value itself and its message do not reach the caller.
C20_EveryFailureIsOneOfFour ==
    InvocationFailed
    => LET original == ThrownInTry
           expected ==
               IF ~original.isError THEN AI_UNKNOWN_ERROR
               ELSE IF SaysConnection(original.message)
               THEN AI_CONNECTION_FAILED
               ELSE IF SaysResponse(original.message) THEN AI_RESPONSE_ERROR
               ELSE IF SaysAuth(original.message) THEN AI_AUTH_ERROR
               ELSE AI_UNKNOWN_ERROR
       IN  /\ outcome.kind = "error"
           /\ outcome.error.isError
           /\ outcome.error.message \in ClassifiedMessages
           /\ outcome.error.message = expected
           /\ original.message \notin ClassifiedMessages
                 => /\ outcome.error # original
                    /\ outcome.error.message # original.message

\* C20 witness: a thrown value that is not an Error object, whose text
\* names a connection failure, reached the caller as the unknown error.
C20_Witness ==
    /\ pc = "done"
    /\ backend.kind = "throws"
    /\ ~backend.error.isError
    /\ SaysConnection(backend.error.message)
    /\ outcome = [kind |-> "error", error |-> Err(AI_UNKNOWN_ERROR)]

=============================================================================
